---- MODULE Spec2Model ----
(***************************************************************************)
(* Org-chart builder: the zustand store (src/src/stores/orgChartStore.js), *)
(* the role expander (src/src/utils/roleExpander.js) and the layout engine *)
(* (src/src/utils/layoutEngine.js) as a state machine.  A person id        *)
(* "role-<t>-person-<i>" is the record [k |-> "role", t |-> t, i |-> i]; a *)
(* custom id "custom-<n>" is [k |-> "custom", t |-> 0, i |-> n]; null is   *)
(* NULL.  The command input (src/unnamed/part_001, CommandInput.jsx) is    *)
(* modelled with its React state, its interpretation requests in flight    *)
(* and its pending auto-dismiss timers.                                    *)
(***************************************************************************)
EXTENDS Integers, Sequences, FiniteSets, TLC

VARIABLES csvFileName, departments, roleTemplates, personNodes,
          managerAssignments, selectedQuarter, collapsedNodes, error,
          nodes, edges, ret, customCount, hung

vars == <<csvFileName, departments, roleTemplates, personNodes,
          managerAssignments, selectedQuarter, collapsedNodes, error,
          nodes, edges, ret, customCount, hung>>

\* CommandInput: the useState cells, the interpretCommand calls that have not
\* returned yet and the setTimeout callbacks that have not run yet, both
\* tagged with the number of the submit they belong to
VARIABLES phase, command, parsedCommand, preview, feedback, commandError,
          requests, timers, submitted

commandInput == <<phase, command, parsedCommand, preview, feedback, commandError,
                  requests, timers, submitted>>

(* ----------------------------- bounds ---------------------------------- *)

\* number of custom roles that addCustomRole may create in one run
MaxCustom == 1

\* largest personIds array handed to bulkSetManager / bulkRemoveManager
MaxBatch == 3

\* largest collapsed set toggleNodeCollapse may build
MaxCollapsed == 1

\* largest collapsed set the visibility check is evaluated on
MaxCollapsedChecked == 2

\* largest per-quarter head count of the generated head-count files
MaxHeadcount == 2

\* largest head count of a role in the files of the grid specification
MaxGridHeadcount == 5

\* number of commands that may be submitted to the command input in one run
MaxCommands == 3

(* ------------------------- program constants --------------------------- *)

\* "Safety limit" of wouldCreateCircular
SafetyLimit == 1000

\* pass cap of the placeholder loop of setSelectedQuarter
MaxIterations == 10

(* ------------------------------- ids ----------------------------------- *)

NULL == [k |-> "null", t |-> 0, i |-> 0]

RoleId(t, i) == [k |-> "role", t |-> t, i |-> i]

CustomId(n) == [k |-> "custom", t |-> 0, i |-> n]

\* template id null (custom roles) is 0
NoTemplate == 0

quarterOrder == <<"Q1", "Q2", "Q3", "Q4">>

QUARTERS == {"Q1", "Q2", "Q3", "Q4", "Full Year"}

\* the periods the full interleaving switches between
Periods == {"Q1", "Q4"}

(* --------------------------- the data set ------------------------------ *)

\* csvFileName before any file is loaded (null)
NoFile == "null"

\* the head-count files the model loads
DefaultCsv == "headcount-data.csv"

LargeCsv == "headcount-large.csv"

DeepCsv == "headcount-deep.csv"

\* departments produced by the parser: ids dept-0, dept-1
CsvDepartments(file) == IF file = DeepCsv THEN <<0>> ELSE <<0, 1>>

\* role templates produced by the parser, in row order: role-1 (row 1) in
\* dept-0, role-12 (row 12) in dept-1.  The deep file has one role that grows
\* from 1 person in Q1 to 12 in Q4; in the large file role-12 starts in Q2,
\* has 2 persons in Q3 and 1 in Q4.
CsvRoleTemplates(file) ==
  IF file = DeepCsv
  THEN << [id |-> 1,  departmentId |-> 0,
           quarters |-> [Q1 |-> 1, Q2 |-> 1, Q3 |-> 1, Q4 |-> 12]] >>
  ELSE IF file = LargeCsv
  THEN << [id |-> 1,  departmentId |-> 0,
           quarters |-> [Q1 |-> 1, Q2 |-> 1, Q3 |-> 1, Q4 |-> 2]],
          [id |-> 12, departmentId |-> 1,
           quarters |-> [Q1 |-> 0, Q2 |-> 1, Q3 |-> 2, Q4 |-> 1]] >>
  ELSE << [id |-> 1,  departmentId |-> 0,
           quarters |-> [Q1 |-> 1, Q2 |-> 1, Q3 |-> 1, Q4 |-> 1]],
          [id |-> 12, departmentId |-> 1,
           quarters |-> [Q1 |-> 0, Q2 |-> 1, Q3 |-> 1, Q4 |-> 1]] >>

\* department ids that no department carries
InvalidDepartments == {7}

\* the inputs of the full interleaving: the template it reassigns and the
\* departments a custom role is created in
ReassignedTemplates == {12}

CustomRoleDepartments == {0} \cup InvalidDepartments

(* ----------------------------- helpers --------------------------------- *)

Max(a, b) == IF a >= b THEN a ELSE b

SeqToSet(s) == {s[x] : x \in DOMAIN s}

RECURSIVE IsDecPrefix(_, _)
\* decimal representation of a is a prefix of that of b
IsDecPrefix(a, b) ==
  IF a = b THEN TRUE
  ELSE IF b < 10 THEN FALSE
  ELSE IsDecPrefix(a, b \div 10)

\* id.startsWith(template.id) for id = "role-<t>-person-<i>" / "custom-<n>"
StartsWith(id, tid) == id.k = "role" /\ IsDecPrefix(tid, id.t)

Ids(pn) == {pn[x].id : x \in DOMAIN pn}

\* personNodes.find(p => p.id === id)?.managerId  (undefined is falsy: NULL)
ManagerOf(id, pn) ==
  IF \E x \in DOMAIN pn : pn[x].id = id
  THEN pn[CHOOSE x \in DOMAIN pn :
            pn[x].id = id /\ \A y \in DOMAIN pn : pn[y].id = id => x <= y].managerId
  ELSE NULL

EmptyMap == [x \in {} |-> NULL]

MapSet(m, key, v) == [x \in (DOMAIN m) \cup {key} |-> IF x = key THEN v ELSE m[x]]

\* delete leaves the entry in place
MapDel_none(m, keys) == m

\* delete m[key] for every key of keys
MapDel(m, keys) == [x \in (DOMAIN m) \ keys |-> m[x]]

\* managerAssignments[id] || null
MapGet(m, id) == IF id \in DOMAIN m THEN m[id] ELSE NULL

NoError == [kind |-> "none", n |-> 0]

Err(kind) == [kind |-> kind, n |-> 0]

(* ----------------------- wouldCreateCircular --------------------------- *)

\* variant: only a person named as its own manager is rejected
wouldCreateCircular_selfOnly(personId, newManagerId, allPersonNodes) ==
  newManagerId = NULL \/ personId = newManagerId

RECURSIVE CircularWalk(_, _, _, _)
CircularWalk(current, personId, pn, visited) ==
  IF current = NULL THEN FALSE
  ELSE IF current = personId THEN TRUE
  ELSE IF current \in visited THEN TRUE
  ELSE IF Cardinality(visited \cup {current}) > SafetyLimit THEN TRUE
  ELSE CircularWalk(ManagerOf(current, pn), personId, pn, visited \cup {current})

wouldCreateCircular(personId, newManagerId, allPersonNodes) ==
  IF newManagerId = NULL \/ personId = newManagerId THEN TRUE
  ELSE CircularWalk(newManagerId, personId, allPersonNodes, {})

(* ------------------------- expandRoleTemplates ------------------------- *)

getStartQuarter(quarters) ==
  IF \E x \in 1..4 : quarters[quarterOrder[x]] > 0
  THEN quarterOrder[CHOOSE x \in 1..4 :
         quarters[quarterOrder[x]] > 0
         /\ \A y \in 1..4 : quarters[quarterOrder[y]] > 0 => x <= y]
  ELSE "none"

\* the full year takes the count of the last quarter
Headcount_lastQuarter(template, quarter) ==
  IF quarter = "Full Year" THEN template.quarters.Q4 ELSE template.quarters[quarter]

\* headcount of a template for the selected quarter, before the placeholder rule
Headcount(template, quarter) ==
  IF quarter = "Full Year"
  THEN Max(Max(template.quarters.Q1, template.quarters.Q2),
           Max(template.quarters.Q3, template.quarters.Q4))
  ELSE template.quarters[quarter]

\* variant: only the first instance of a role counts as active
IsCurrentlyActive_firstOnly(template, quarter, i) ==
  quarter # "Full Year" /\ i = 0 /\ template.quarters[quarter] > 0

\* template.quarters[quarter] > i  (quarters['Full Year'] is undefined: false)
IsCurrentlyActive(template, quarter, i) ==
  quarter # "Full Year" /\ template.quarters[quarter] > i

ExpandedNode(template, quarter, existingManagerIds, i) ==
  [id           |-> RoleId(template.id, i),
   templateId   |-> template.id,
   departmentId |-> template.departmentId,
   managerId    |-> NULL,
   isCustom     |-> FALSE,
   startQuarter |-> getStartQuarter(template.quarters),
   isFutureRole |-> ~IsCurrentlyActive(template, quarter, i)
                    /\ RoleId(template.id, i) \in existingManagerIds]

\* the nodes one template contributes (body of the forEach)
ExpandTemplate(template, quarter, existingManagerIds) ==
  LET h0 == Headcount(template, quarter)
      neededAsManager ==
        \E id \in existingManagerIds : id # NULL /\ StartsWith(id, template.id)
      headcount ==
        IF h0 = 0
        THEN IF neededAsManager
             THEN Max(1, IF template.quarters.Q4 = 0 THEN 1 ELSE template.quarters.Q4)
             ELSE 0
        ELSE h0
      all == [x \in 1..headcount |->
                ExpandedNode(template, quarter, existingManagerIds, x - 1)]
      Keep(n) == IsCurrentlyActive(template, quarter, n.id.i)
                 \/ n.id \in existingManagerIds
                 \/ quarter = "Full Year"
  IN SelectSeq(all, Keep)

RECURSIVE ExpandFrom(_, _, _, _)
ExpandFrom(templates, x, quarter, existingManagerIds) ==
  IF x > Len(templates) THEN << >>
  ELSE ExpandTemplate(templates[x], quarter, existingManagerIds)
       \o ExpandFrom(templates, x + 1, quarter, existingManagerIds)

expandRoleTemplates(templates, quarter, existingManagerIds) ==
  ExpandFrom(templates, 1, quarter, existingManagerIds)

(* ----------------------------- rebuildChart ---------------------------- *)

\* only the direct manager is looked at
AncestorWalk_parentOnly(current, pn, collapsed, visited) ==
  IF current = NULL THEN "visible"
  ELSE IF current \in collapsed THEN "hidden"
  ELSE "visible"

RECURSIVE AncestorWalk(_, _, _, _)
\* the while loop of isPersonVisible; it has no cap, so a walk that comes
\* back to an id it already left never ends ("diverges")
AncestorWalk(current, pn, collapsed, visited) ==
  IF current = NULL THEN "visible"
  ELSE IF current \in collapsed THEN "hidden"
  ELSE IF current \in visited THEN "diverges"
  ELSE AncestorWalk(ManagerOf(current, pn), pn, collapsed, visited \cup {current})

\* a collapsed manager that is itself hidden shows its reports again
isPersonVisible_nearest(person, pn, collapsed) ==
  IF /\ person.managerId # NULL
     /\ person.managerId \in collapsed
     /\ AncestorWalk(ManagerOf(person.managerId, pn), pn, collapsed, {}) = "hidden"
  THEN "visible"
  ELSE AncestorWalk(person.managerId, pn, collapsed, {})

isPersonVisible(person, pn, collapsed) ==
  AncestorWalk(person.managerId, pn, collapsed, {})

\* personNodes.filter(isPersonVisible) never returns
RebuildDiverges(pn, collapsed) ==
  \E x \in DOMAIN pn : isPersonVisible(pn[x], pn, collapsed) = "diverges"

visiblePersonNodes(pn, collapsed) ==
  LET Vis(p) == isPersonVisible(p, pn, collapsed) = "visible"
  IN SelectSeq(pn, Vis)

\* personNodes.some(n => n.managerId === id)
IsManagerIn(id, pn) == \E x \in DOMAIN pn : pn[x].managerId = id

BuildNodes(pn, collapsed) ==
  LET vis == visiblePersonNodes(pn, collapsed)
  IN [x \in 1..Len(vis) |->
        [id                 |-> vis[x].id,
         isManager          |-> IsManagerIn(vis[x].id, pn),
         isCollapsed        |-> vis[x].id \in collapsed,
         directReportsCount |-> Cardinality({y \in DOMAIN pn :
                                               pn[y].managerId = vis[x].id})]]

\* person.templateId || person.id
RoleKey(person) ==
  IF person.templateId # NoTemplate
  THEN [k |-> "template", t |-> person.templateId, i |-> 0]
  ELSE person.id

RECURSIVE EdgesFrom_dedupAll(_, _, _, _)
\* variant: managers are de-duplicated like everyone else
EdgesFrom_dedupAll(vis, x, pn, created) ==
  IF x > Len(vis) THEN << >>
  ELSE LET person == vis[x]
           managerExists == \E y \in DOMAIN vis : vis[y].id = person.managerId
           edgeKey == <<person.managerId, RoleKey(person)>>
           emit == person.managerId # NULL /\ managerExists
                   /\ edgeKey \notin created
       IN IF emit
          THEN <<[source |-> person.managerId, target |-> person.id]>>
               \o EdgesFrom_dedupAll(vis, x + 1, pn, created \cup {edgeKey})
          ELSE EdgesFrom_dedupAll(vis, x + 1, pn, created)

RECURSIVE EdgesFrom(_, _, _, _)
\* the forEach that builds edges; created is the edgesCreated set
EdgesFrom(vis, x, pn, created) ==
  IF x > Len(vis) THEN << >>
  ELSE LET person == vis[x]
           managerExists == \E y \in DOMAIN vis : vis[y].id = person.managerId
           edgeKey == <<person.managerId, RoleKey(person)>>
           emit == person.managerId # NULL /\ managerExists
                   /\ (IsManagerIn(person.id, pn) \/ edgeKey \notin created)
       IN IF emit
          THEN <<[source |-> person.managerId, target |-> person.id]>>
               \o EdgesFrom(vis, x + 1, pn, created \cup {edgeKey})
          ELSE EdgesFrom(vis, x + 1, pn, created)

BuildEdges(pn, collapsed) ==
  EdgesFrom(visiblePersonNodes(pn, collapsed), 1, pn, {})

(* ----------------------------- layoutEngine ----------------------------- *)

NODE_WIDTH == 220

NODE_HEIGHT == 100

HORIZONTAL_GAP == 20

VERTICAL_GAP == 15

LEVEL_GAP == 40

\* COLS of the unassigned leaves of the hierarchical layout
LEAF_COLS == 6

\* let currentX = 50; let currentY = 50
START_X == 50

START_Y == 50

\* COLS of the grid layout
GRID_COLS == 4

NODE_SPACING_X == 240

NODE_SPACING_Y == 120

DEPT_SPACING_Y == 180

Pos(x, y) == [x |-> x, y |-> y]

\* const positions = {}
NoPositions == [id \in {} |-> Pos(0, 0)]

\* positions[items[k].id] = at[k] for k = 1 .. Len(items), in that order
Put(items, at) ==
  [id \in Ids(items) |->
     at[CHOOSE k \in DOMAIN items :
          items[k].id = id /\ \A j \in DOMAIN items : items[j].id = id => j <= k]]

\* Math.ceil(n / cols)
CeilDiv(n, cols) == (n + cols - 1) \div cols

\* childrenMap.get(nodeId) || []
Children(nodeId, vis) ==
  LET ReportsTo(p) == p.managerId = nodeId
  IN SelectSeq(vis, ReportsTo)

RECURSIVE RoleKeysFrom(_, _, _)
\* the keys of the groups Map, in insertion order
RoleKeysFrom(children, x, acc) ==
  IF x > Len(children) THEN acc
  ELSE IF RoleKey(children[x]) \in SeqToSet(acc)
       THEN RoleKeysFrom(children, x + 1, acc)
       ELSE RoleKeysFrom(children, x + 1, Append(acc, RoleKey(children[x])))

\* variant: one group per child
groupChildrenByRole_perChild(children) ==
  [g \in DOMAIN children |-> << children[g] >>]

groupChildrenByRole(children) ==
  LET keys == RoleKeysFrom(children, 1, << >>)
  IN [g \in DOMAIN keys |->
        LET InGroup(c) == RoleKey(c) = keys[g]
        IN SelectSeq(children, InGroup)]

\* children.some(c => childrenMap.has(c.id) && childrenMap.get(c.id).length > 0)
childrenAreManagers(children, vis) ==
  \E x \in DOMAIN children : Children(children[x].id, vis) # << >>

\* variant: every subtree is taken to be one node wide
getSubtreeWidth_oneNode(nodeId, vis) == NODE_WIDTH

RECURSIVE getSubtreeWidth(_, _)
RECURSIVE SumChildWidths(_, _, _)
getSubtreeWidth(nodeId, vis) ==
  LET children == Children(nodeId, vis)
      numColumns == Len(groupChildrenByRole(children))
  IN IF children = << >> THEN NODE_WIDTH
     ELSE IF childrenAreManagers(children, vis)
          THEN Max(NODE_WIDTH, SumChildWidths(children, 1, vis))
          ELSE Max(NODE_WIDTH,
                   numColumns * NODE_WIDTH + (numColumns - 1) * HORIZONTAL_GAP)

\* the totalWidth loop of getSubtreeWidth, from child x on
SumChildWidths(children, x, vis) ==
  IF x > Len(children) THEN 0
  ELSE getSubtreeWidth(children[x].id, vis)
       + (IF x < Len(children) THEN HORIZONTAL_GAP ELSE 0)
       + SumChildWidths(children, x + 1, vis)

RECURSIVE LayoutGroups(_, _, _, _)
\* roleGroups.forEach: one column per role, its instances stacked
LayoutGroups(roleGroups, g, currentX, childY) ==
  IF g > Len(roleGroups) THEN NoPositions
  ELSE LET stacked == [k \in DOMAIN roleGroups[g] |->
                         Pos(currentX, childY + (k - 1) * (NODE_HEIGHT + VERTICAL_GAP))]
       IN LayoutGroups(roleGroups, g + 1, currentX + NODE_WIDTH + HORIZONTAL_GAP, childY)
          @@ Put(roleGroups[g], stacked)

\* only the node itself is positioned
layoutSubtree_nodeOnly(nodeId, startX, startY, vis) ==
  nodeId :> Pos(startX, startY)

RECURSIVE layoutSubtree(_, _, _, _)
RECURSIVE LayoutChildren(_, _, _, _, _)
\* the positions layoutSubtree writes; a later write to a key wins
layoutSubtree(nodeId, startX, startY, vis) ==
  LET children == Children(nodeId, vis)
      subtreeWidth == getSubtreeWidth(nodeId, vis)
      nodeX == startX + (subtreeWidth - NODE_WIDTH) \div 2
      own == nodeId :> Pos(nodeX, startY)
      childY == startY + NODE_HEIGHT + LEVEL_GAP
  IN IF children = << >> THEN own
     ELSE IF childrenAreManagers(children, vis)
          THEN LayoutChildren(children, 1, startX, childY, vis) @@ own
          ELSE LayoutGroups(groupChildrenByRole(children), 1, startX, childY) @@ own

\* children.forEach(child => { currentX += layoutSubtree(...) + HORIZONTAL_GAP })
LayoutChildren(children, x, currentX, childY, vis) ==
  IF x > Len(children) THEN NoPositions
  ELSE LayoutChildren(children, x + 1,
                      currentX + getSubtreeWidth(children[x].id, vis) + HORIZONTAL_GAP,
                      childY, vis)
       @@ layoutSubtree(children[x].id, currentX, childY, vis)

RECURSIVE LayoutRoots(_, _, _, _, _)
\* trueRoots.forEach(root => { currentX += layoutSubtree(...) + HORIZONTAL_GAP * 2 })
LayoutRoots(trueRoots, x, currentX, currentY, vis) ==
  IF x > Len(trueRoots) THEN NoPositions
  ELSE LayoutRoots(trueRoots, x + 1,
                   currentX + getSubtreeWidth(trueRoots[x].id, vis) + HORIZONTAL_GAP * 2,
                   currentY, vis)
       @@ layoutSubtree(trueRoots[x].id, currentX, currentY, vis)

calculateHierarchicalLayout(vis, depts) ==
  LET IsRoot(p) == p.managerId = NULL \/ p.managerId \notin Ids(vis)
      rootNodes == SelectSeq(vis, IsRoot)
      managerIds == {vis[x].managerId : x \in DOMAIN vis} \ {NULL}
      HasReports(p) == p.id \in managerIds
      HasNoReports(p) == p.id \notin managerIds
      trueRoots == SelectSeq(rootNodes, HasReports)
      unassignedLeaves == SelectSeq(rootNodes, HasNoReports)
      inGrid == [k \in DOMAIN unassignedLeaves |->
                   Pos(START_X + ((k - 1) % LEAF_COLS) * (NODE_WIDTH + HORIZONTAL_GAP),
                       START_Y + ((k - 1) \div LEAF_COLS) * (NODE_HEIGHT + VERTICAL_GAP))]
      rows == CeilDiv(Len(unassignedLeaves), LEAF_COLS)
      currentY == IF unassignedLeaves # << >>
                  THEN START_Y + rows * (NODE_HEIGHT + VERTICAL_GAP) + LEVEL_GAP
                  ELSE START_Y
  IN LayoutRoots(trueRoots, 1, START_X, currentY, vis) @@ Put(unassignedLeaves, inGrid)

RECURSIVE GridFrom_noRows(_, _, _, _)
\* variant: the next block starts DEPT_SPACING_Y below the start of this one
GridFrom_noRows(vis, depts, d, currentY) ==
  IF d > Len(depts) THEN NoPositions
  ELSE LET InDept(p) == p.departmentId = depts[d]
           deptNodes == SelectSeq(vis, InDept)
           inGrid == [k \in DOMAIN deptNodes |->
                        Pos(((k - 1) % GRID_COLS) * NODE_SPACING_X,
                            currentY + ((k - 1) \div GRID_COLS) * NODE_SPACING_Y)]
       IN IF deptNodes = << >>
          THEN GridFrom_noRows(vis, depts, d + 1, currentY)
          ELSE GridFrom_noRows(vis, depts, d + 1, currentY + DEPT_SPACING_Y)
               @@ Put(deptNodes, inGrid)

RECURSIVE GridFrom(_, _, _, _)
\* departments.forEach(dept => ...) from department d on
GridFrom(vis, depts, d, currentY) ==
  IF d > Len(depts) THEN NoPositions
  ELSE LET InDept(p) == p.departmentId = depts[d]
           deptNodes == SelectSeq(vis, InDept)
           inGrid == [k \in DOMAIN deptNodes |->
                        Pos(((k - 1) % GRID_COLS) * NODE_SPACING_X,
                            currentY + ((k - 1) \div GRID_COLS) * NODE_SPACING_Y)]
           rows == CeilDiv(Len(deptNodes), GRID_COLS)
       IN IF deptNodes = << >>
          THEN GridFrom(vis, depts, d + 1, currentY)
          ELSE GridFrom(vis, depts, d + 1,
                        currentY + rows * NODE_SPACING_Y + DEPT_SPACING_Y)
               @@ Put(deptNodes, inGrid)

calculateGridLayout(vis, depts) == GridFrom(vis, depts, 1, 0)

\* personNodes.some(p => p.managerId !== null), over the array handed in
hasHierarchy(vis) == \E x \in DOMAIN vis : vis[x].managerId # NULL

calculateLayout(vis, depts) ==
  IF hasHierarchy(vis)
  THEN calculateHierarchicalLayout(vis, depts)
  ELSE calculateGridLayout(vis, depts)

\* newPositions of rebuildChart: the layout of the visible persons.  The
\* positions are a function of the working set, the collapsed set and the
\* departments; they are computed here and not kept in the state
newPositions(pn, collapsed, depts) ==
  calculateLayout(visiblePersonNodes(pn, collapsed), depts)

\* get().rebuildChart() at the end of a handler that has just written pn and
\* collapsed; a rebuild that never returns freezes the (single-threaded) store
rebuildChart(pn, collapsed) ==
  IF RebuildDiverges(pn, collapsed)
  THEN hung' = TRUE /\ UNCHANGED <<nodes, edges>>
  ELSE /\ hung' = FALSE
       /\ nodes' = BuildNodes(pn, collapsed)
       /\ edges' = BuildEdges(pn, collapsed)

\* the value a handler returns after its trailing rebuild (none if it hangs)
\* ret is the last value a handler returned, with the handler's name; every
\* handler that returns nothing leaves Void
Void == [op |-> "void", ok |-> FALSE, count |-> 0]

Bool(op, b) == [op |-> op, ok |-> b, count |-> 0]

Count(op, n) == [op |-> op, ok |-> FALSE, count |-> n]

ReturnAfterRebuild(pn, collapsed, v) ==
  ret' = IF RebuildDiverges(pn, collapsed) THEN ret ELSE v

(* ------------------- setSelectedQuarter: placeholders ------------------- *)

\* the canonical assignments are not reapplied to the regenerated nodes
ApplyAssignments_none(pn, assignments) == pn

\* personNodes.forEach(node => { if (managerAssignments[node.id]) ... })
ApplyAssignments(pn, assignments) ==
  [x \in DOMAIN pn |->
     IF MapGet(assignments, pn[x].id) # NULL
     THEN [pn[x] EXCEPT !.managerId = assignments[pn[x].id]]
     ELSE pn[x]]

RECURSIVE MissingFrom(_, _, _, _)
\* the missingManagers Set, in insertion order
MissingFrom(pn, x, existingIds, acc) ==
  IF x > Len(pn) THEN acc
  ELSE LET m == pn[x].managerId
       IN IF m # NULL /\ m \notin existingIds /\ m \notin SeqToSet(acc)
          THEN MissingFrom(pn, x + 1, existingIds, Append(acc, m))
          ELSE MissingFrom(pn, x + 1, existingIds, acc)

\* managerId.match(/^(role-\d+)-person-(\d+)$/) and roleTemplates.find(...)
HasTemplate(managerId, templates) ==
  managerId.k = "role" /\ \E y \in DOMAIN templates : templates[y].id = managerId.t

TemplateOf(managerId, templates) ==
  templates[CHOOSE y \in DOMAIN templates :
              templates[y].id = managerId.t
              /\ \A z \in DOMAIN templates : templates[z].id = managerId.t => y <= z]

PlaceholderNode(managerId, templates, assignments) ==
  LET template == TemplateOf(managerId, templates)
  IN [id           |-> managerId,
      templateId   |-> template.id,
      departmentId |-> template.departmentId,
      managerId    |-> MapGet(assignments, managerId),
      isCustom     |-> FALSE,
      startQuarter |-> getStartQuarter(template.quarters),
      isFutureRole |-> TRUE]

RECURSIVE AddPlaceholders(_, _, _, _, _, _)
\* missingManagers.forEach(...): result is [pn, existingIds]
AddPlaceholders(pn, existingIds, missing, x, templates, assignments) ==
  IF x > Len(missing) THEN [pn |-> pn, existingIds |-> existingIds]
  ELSE IF HasTemplate(missing[x], templates)
       THEN AddPlaceholders(
              Append(pn, PlaceholderNode(missing[x], templates, assignments)),
              existingIds \cup {missing[x]}, missing, x + 1, templates, assignments)
       ELSE AddPlaceholders(pn, existingIds, missing, x + 1, templates, assignments)

RECURSIVE PlaceholderLoop(_, _, _, _, _)
\* while (iterations < 10) { ... }
PlaceholderLoop(pn, existingIds, iterations, templates, assignments) ==
  IF iterations >= MaxIterations THEN pn
  ELSE LET missing == MissingFrom(pn, 1, existingIds, << >>)
       IN IF missing = << >> THEN pn
          ELSE LET r == AddPlaceholders(pn, existingIds, missing, 1,
                                        templates, assignments)
               IN PlaceholderLoop(r.pn, r.existingIds, iterations + 1,
                                  templates, assignments)

\* the working set setSelectedQuarter(quarter) stores
QuarterPersonNodes(templates, assignments, quarter) ==
  LET referencedManagerIds == {assignments[key] : key \in DOMAIN assignments} \ {NULL}
      expanded == expandRoleTemplates(templates, quarter, referencedManagerIds)
      applied  == ApplyAssignments(expanded, assignments)
  IN PlaceholderLoop(applied, Ids(applied), 0, templates, assignments)

(* ------------------------------- state --------------------------------- *)

\* parsedCommand null
NoCommand == [type |-> "none", personId |-> NULL, managerId |-> NULL]

\* preview null
NoPreview == [type |-> "none"]

\* the useState initial values of CommandInput; nothing in flight
InitCommandInput ==
  /\ phase = "idle"
  /\ command = ""
  /\ parsedCommand = NoCommand
  /\ preview = NoPreview
  /\ feedback = "none"
  /\ commandError = "none"
  /\ requests = {}
  /\ timers = {}
  /\ submitted = 0

Init ==
  /\ csvFileName = NoFile
  /\ departments = << >>
  /\ roleTemplates = << >>
  /\ personNodes = << >>
  /\ managerAssignments = EmptyMap
  /\ selectedQuarter = "Q4"
  /\ collapsedNodes = {}
  /\ error = NoError
  /\ nodes = << >>
  /\ edges = << >>
  /\ ret = Void
  /\ customCount = 0
  /\ hung = FALSE
  /\ InitCommandInput

PersonIds == Ids(personNodes)

\* the ids of the persons the loaded templates expand to in some period
DataIds(templates) ==
  UNION {{RoleId(templates[x].id, i) :
            i \in 0..(Headcount(templates[x], "Full Year") - 1)} :
         x \in DOMAIN templates}

\* the ids a caller of the store can hold: ManagerAssignment keeps its
\* selection and its chosen manager across a period switch, and the command
\* executor forwards the ids of a command without looking them up, so an id
\* need not be in the working set of the current period
CallIds ==
  PersonIds \cup DataIds(roleTemplates) \cup {CustomId(n) : n \in 1..customCount}

\* the personIds arrays of the bulk operations
Batches == {S \in SUBSET CallIds : S # {} /\ Cardinality(S) <= MaxBatch}

\* personNodes.map(node => cond(node) ? { ...node, managerId } : node)
WithManager(pn, targets, managerId) ==
  [x \in DOMAIN pn |->
     IF pn[x].id \in targets THEN [pn[x] EXCEPT !.managerId = managerId] ELSE pn[x]]

(* ------------------------------ actions --------------------------------- *)

\* App loads the default file on mount, and only while csvFileName is null
loadCSV(file) ==
  /\ ~hung
  /\ csvFileName = NoFile
  /\ csvFileName' = file
  /\ departments' = CsvDepartments(file)
  /\ roleTemplates' = CsvRoleTemplates(file)
  /\ personNodes' = expandRoleTemplates(roleTemplates', selectedQuarter, {})
  /\ error' = NoError
  /\ rebuildChart(personNodes', collapsedNodes)
  /\ ReturnAfterRebuild(personNodes', collapsedNodes, Void)
  /\ UNCHANGED <<managerAssignments, selectedQuarter, collapsedNodes, customCount>>

setSelectedQuarter(quarter) ==
  /\ ~hung
  /\ personNodes' = QuarterPersonNodes(roleTemplates, managerAssignments, quarter)
  /\ selectedQuarter' = quarter
  /\ rebuildChart(personNodes', collapsedNodes)
  /\ ReturnAfterRebuild(personNodes', collapsedNodes, Void)
  /\ UNCHANGED <<csvFileName, departments, roleTemplates, managerAssignments, collapsedNodes,
                 error, customCount>>

reassignRole(templateId, newDeptId) ==
  /\ ~hung
  /\ IF newDeptId \notin SeqToSet(departments)
     THEN /\ ret' = Void
          /\ UNCHANGED <<csvFileName, departments, roleTemplates, personNodes, managerAssignments,
                         selectedQuarter, collapsedNodes, error, nodes, edges,
                         customCount, hung>>
     ELSE /\ roleTemplates' =
               [x \in DOMAIN roleTemplates |->
                  IF roleTemplates[x].id = templateId
                  THEN [roleTemplates[x] EXCEPT !.departmentId = newDeptId]
                  ELSE roleTemplates[x]]
          /\ personNodes' = expandRoleTemplates(roleTemplates', selectedQuarter, {})
          /\ rebuildChart(personNodes', collapsedNodes)
          /\ ReturnAfterRebuild(personNodes', collapsedNodes, Void)
          /\ UNCHANGED <<csvFileName, departments, managerAssignments, selectedQuarter,
                         collapsedNodes, error, customCount>>

setManager(personId, managerId, skipRebuild) ==
  /\ ~hung
  /\ IF managerId # NULL /\ wouldCreateCircular(personId, managerId, personNodes)
     THEN /\ error' = Err("circular")
          /\ ret' = Bool("setManager", FALSE)
          /\ UNCHANGED <<csvFileName, departments, roleTemplates, personNodes, managerAssignments,
                         selectedQuarter, collapsedNodes, nodes, edges,
                         customCount, hung>>
     ELSE /\ managerAssignments' =
               IF managerId # NULL
               THEN MapSet(managerAssignments, personId, managerId)
               ELSE MapDel(managerAssignments, {personId})
          /\ personNodes' = WithManager(personNodes, {personId}, managerId)
          /\ error' = NoError
          /\ IF skipRebuild
             THEN /\ ret' = Bool("setManager", TRUE)
                  /\ UNCHANGED <<nodes, edges, hung>>
             ELSE /\ rebuildChart(personNodes', collapsedNodes)
                  /\ ReturnAfterRebuild(personNodes', collapsedNodes,
                                        Bool("setManager", TRUE))
          /\ UNCHANGED <<csvFileName, departments, roleTemplates, selectedQuarter,
                         collapsedNodes, customCount>>

\* one warning per failure instead of the aggregate count
BulkError_noCount(failedCount) ==
  IF failedCount > 0 THEN [kind |-> "skipped", n |-> 1] ELSE NoError

\* failedCount > 0 ? `${failedCount} assignment(s) skipped ...` : null
BulkError(failedCount) ==
  IF failedCount > 0 THEN [kind |-> "skipped", n |-> failedCount] ELSE NoError

\* the validation loop counts nothing as failed
Failed_none(personIds, managerId, pn) == {}

\* the ids of a batch that the validation loop counts as failed
Failed(personIds, managerId, pn) ==
  {id \in personIds : managerId # NULL /\ wouldCreateCircular(id, managerId, pn)}

\* the ids of a batch that pass the check of the newAssignments loop
Passed(personIds, managerId, pn) ==
  {id \in personIds : managerId = NULL \/ ~wouldCreateCircular(id, managerId, pn)}

\* what one bulkSetManager call writes and returns, from the working set and
\* the canonical map it reads at entry
bulkSetManagerResult(personIds, managerId, pn, assignments) ==
  LET failedCount == Cardinality(Failed(personIds, managerId, pn))
      passed == Passed(personIds, managerId, pn)
      newAssignments ==
        IF managerId # NULL
        THEN [x \in (DOMAIN assignments) \cup passed |->
                IF x \in passed THEN managerId ELSE assignments[x]]
        ELSE MapDel(assignments, passed)
  IN [personNodes        |-> WithManager(pn, personIds \ Failed(personIds, managerId, pn),
                                         managerId),
      managerAssignments |-> newAssignments,
      error              |-> BulkError(failedCount),
      ret                |-> Count("bulkSetManager",
                                   Cardinality(personIds) - failedCount)]

bulkSetManager(personIds, managerId) ==
  LET r == bulkSetManagerResult(personIds, managerId, personNodes, managerAssignments)
  IN /\ ~hung
     /\ personNodes' = r.personNodes
     /\ managerAssignments' = r.managerAssignments
     /\ error' = r.error
     /\ rebuildChart(personNodes', collapsedNodes)
     /\ ReturnAfterRebuild(personNodes', collapsedNodes, r.ret)
     /\ UNCHANGED <<csvFileName, departments, roleTemplates, selectedQuarter,
                    collapsedNodes, customCount>>

removeManager(personId) ==
  /\ ~hung
  /\ managerAssignments' = MapDel(managerAssignments, {personId})
  /\ personNodes' = WithManager(personNodes, {personId}, NULL)
  /\ rebuildChart(personNodes', collapsedNodes)
  /\ ReturnAfterRebuild(personNodes', collapsedNodes, Void)
  /\ UNCHANGED <<csvFileName, departments, roleTemplates, selectedQuarter, collapsedNodes,
                 error, customCount>>

bulkRemoveManager(personIds) ==
  /\ ~hung
  /\ managerAssignments' = MapDel(managerAssignments, personIds)
  /\ personNodes' = WithManager(personNodes, personIds, NULL)
  /\ rebuildChart(personNodes', collapsedNodes)
  /\ ReturnAfterRebuild(personNodes', collapsedNodes, Void)
  /\ UNCHANGED <<csvFileName, departments, roleTemplates, selectedQuarter, collapsedNodes,
                 error, customCount>>

resetManagerAssignments ==
  /\ ~hung
  /\ personNodes' = WithManager(personNodes, PersonIds, NULL)
  /\ managerAssignments' = EmptyMap
  /\ rebuildChart(personNodes', collapsedNodes)
  /\ ReturnAfterRebuild(personNodes', collapsedNodes, Void)
  /\ UNCHANGED <<csvFileName, departments, roleTemplates, selectedQuarter, collapsedNodes,
                 error, customCount>>

clearError ==
  /\ ~hung
  /\ error' = NoError
  /\ ret' = Void
  /\ UNCHANGED <<csvFileName, departments, roleTemplates, personNodes, managerAssignments,
                 selectedQuarter, collapsedNodes, nodes, edges, customCount, hung>>

addCustomRole(departmentId) ==
  /\ ~hung
  /\ IF departmentId \notin SeqToSet(departments)
     THEN /\ error' = Err("invalid department")
          /\ ret' = Bool("addCustomRole", FALSE)
          /\ UNCHANGED <<csvFileName, departments, roleTemplates, personNodes, managerAssignments,
                         selectedQuarter, collapsedNodes, nodes, edges,
                         customCount, hung>>
     ELSE /\ customCount < MaxCustom
          /\ customCount' = customCount + 1
          /\ personNodes' =
               Append(personNodes,
                      [id           |-> CustomId(customCount + 1),
                       templateId   |-> NoTemplate,
                       departmentId |-> departmentId,
                       managerId    |-> NULL,
                       isCustom     |-> TRUE,
                       startQuarter |-> "none",
                       isFutureRole |-> FALSE])
          /\ error' = NoError
          /\ rebuildChart(personNodes', collapsedNodes)
          /\ ReturnAfterRebuild(personNodes', collapsedNodes, Bool("addCustomRole", TRUE))
          /\ UNCHANGED <<csvFileName, departments, roleTemplates, managerAssignments,
                         selectedQuarter, collapsedNodes>>

toggleNodeCollapse(nodeId) ==
  /\ ~hung
  /\ nodeId \in collapsedNodes \/ Cardinality(collapsedNodes) < MaxCollapsed
  /\ collapsedNodes' = IF nodeId \in collapsedNodes
                       THEN collapsedNodes \ {nodeId}
                       ELSE collapsedNodes \cup {nodeId}
  /\ rebuildChart(personNodes, collapsedNodes')
  /\ ReturnAfterRebuild(personNodes, collapsedNodes', Void)
  /\ UNCHANGED <<csvFileName, departments, roleTemplates, personNodes, managerAssignments,
                 selectedQuarter, error, customCount>>

\* personNodes.find(p => p.id === personId)
Person(personId) ==
  personNodes[CHOOSE x \in DOMAIN personNodes :
                personNodes[x].id = personId
                /\ \A y \in DOMAIN personNodes : personNodes[y].id = personId => x <= y]

\* only the deleted person's own entry is removed
DeleteAssignments_ownKeyOnly(assignments, personId) ==
  MapDel(assignments, {personId})

\* newAssignments of deletePersonNode: drop the key personId and every entry
\* whose value is personId
DeleteAssignments(assignments, personId) ==
  MapDel(assignments,
         {personId} \cup {key \in DOMAIN assignments : assignments[key] = personId})

\* no deletion is refused
Rejection_none(personId) == "none"

\* the early returns of deletePersonNode: the error it sets, "none" when the
\* deletion goes ahead
Rejection(personId) ==
  IF personId \notin PersonIds THEN "person not found"
  ELSE IF ~Person(personId).isCustom THEN "not custom"
  ELSE "none"

deletePersonNode(personId) ==
  /\ ~hung
  /\ IF Rejection(personId) # "none"
     THEN /\ error' = Err(Rejection(personId))
          /\ ret' = Bool("deletePersonNode", FALSE)
          /\ UNCHANGED <<csvFileName, departments, roleTemplates, personNodes, managerAssignments,
                         selectedQuarter, collapsedNodes, nodes, edges,
                         customCount, hung>>
     ELSE /\ managerAssignments' = DeleteAssignments(managerAssignments, personId)
          /\ personNodes' =
               LET NotIt(p) == p.id # personId
                   rest == SelectSeq(personNodes, NotIt)
               IN [x \in DOMAIN rest |->
                     IF rest[x].managerId = personId
                     THEN [rest[x] EXCEPT !.managerId = NULL]
                     ELSE rest[x]]
          /\ rebuildChart(personNodes', collapsedNodes)
          /\ ReturnAfterRebuild(personNodes', collapsedNodes,
                                Bool("deletePersonNode", TRUE))
          /\ UNCHANGED <<csvFileName, departments, roleTemplates, selectedQuarter,
                         collapsedNodes, error, customCount>>

(* ---------------------------- importFromJSON ---------------------------- *)

\* a top-level key that the imported JSON lacks reads as undefined; undefined
\* is written here as a value of the field's type that no file carries
UndefinedDepartments == << -1 >>

UndefinedRoleTemplates ==
  << [id |-> -1, departmentId |-> -1,
      quarters |-> [Q1 |-> 0, Q2 |-> 0, Q3 |-> 0, Q4 |-> 0]] >>

UndefinedPersonNodes ==
  << [id           |-> [k |-> "undefined", t |-> 0, i |-> 0],
      templateId   |-> NoTemplate,
      departmentId |-> -1,
      managerId    |-> NULL,
      isCustom     |-> FALSE,
      startQuarter |-> "none",
      isFutureRole |-> FALSE] >>

UndefinedQuarter == "undefined"

\* what exportToJSON returns after the default file was loaded, the period
\* was chosen, role-1-person-0 was or was not made to report to
\* role-12-person-0, and the nodes of collapsed were collapsed
ExportFile(quarter, managed, collapsed) ==
  [csvFileName     |-> DefaultCsv,
   selectedQuarter |-> quarter,
   departments     |-> CsvDepartments(DefaultCsv),
   roleTemplates   |-> CsvRoleTemplates(DefaultCsv),
   personNodes     |->
     LET pn == expandRoleTemplates(CsvRoleTemplates(DefaultCsv), quarter, {})
     IN IF managed THEN WithManager(pn, {RoleId(1, 0)}, RoleId(12, 0)) ELSE pn,
   collapsedNodes  |-> collapsed]

ExportFiles ==
  {ExportFile("Q4", managed, collapsed) :
     managed \in BOOLEAN, collapsed \in {{}, {RoleId(12, 0)}}}
  \cup {ExportFile("Q1", FALSE, {})}

RequiredKeys == {"departments", "roleTemplates", "personNodes", "selectedQuarter"}

\* the file with the keys of missing deleted
Without(file, missing) ==
  [file EXCEPT
     !.departments     = IF "departments" \in missing
                         THEN UndefinedDepartments ELSE @,
     !.roleTemplates   = IF "roleTemplates" \in missing
                         THEN UndefinedRoleTemplates ELSE @,
     !.personNodes     = IF "personNodes" \in missing
                         THEN UndefinedPersonNodes ELSE @,
     !.selectedQuarter = IF "selectedQuarter" \in missing
                         THEN UndefinedQuarter ELSE @]

\* the JSON documents handed to importFromJSON
ImportData == {Without(file, missing) : file \in ExportFiles,
                                        missing \in SUBSET RequiredKeys}

\* jsonData.personNodes.forEach(node => { if (node.managerId) ... })
ImportedAssignments(pn) ==
  [id \in {pn[x].id : x \in {y \in DOMAIN pn : pn[y].managerId # NULL}} |->
     pn[CHOOSE x \in DOMAIN pn :
          /\ pn[x].id = id /\ pn[x].managerId # NULL
          /\ \A y \in DOMAIN pn :
               (pn[y].id = id /\ pn[y].managerId # NULL) => y <= x].managerId]

\* rebuildChart throws a TypeError: the grid layout calls departments.forEach
\* and the node list calls departments.find
RebuildThrows(pn, collapsed, depts) ==
  /\ depts = UndefinedDepartments
  /\ ~RebuildDiverges(pn, collapsed)

\* jsonData.personNodes.forEach throws a TypeError when the key is absent
ImportThrowsEarly(jsonData) == jsonData.personNodes = UndefinedPersonNodes

importFromJSON(jsonData) ==
  /\ ~hung
  /\ IF ImportThrowsEarly(jsonData)
     THEN /\ error' = Err("import failed")
          /\ ret' = Bool("importFromJSON", FALSE)
          /\ UNCHANGED <<csvFileName, departments, roleTemplates, personNodes,
                         managerAssignments, selectedQuarter, collapsedNodes,
                         nodes, edges, customCount, hung>>
     ELSE /\ departments' = jsonData.departments
          /\ roleTemplates' = jsonData.roleTemplates
          /\ personNodes' = jsonData.personNodes
          /\ managerAssignments' = ImportedAssignments(jsonData.personNodes)
          /\ selectedQuarter' = jsonData.selectedQuarter
          /\ csvFileName' = jsonData.csvFileName
          /\ collapsedNodes' = jsonData.collapsedNodes
          /\ UNCHANGED customCount
          /\ IF RebuildThrows(personNodes', collapsedNodes', departments')
             THEN /\ error' = Err("import failed")
                  /\ ret' = Bool("importFromJSON", FALSE)
                  /\ UNCHANGED <<nodes, edges, hung>>
             ELSE /\ error' = NoError
                  /\ rebuildChart(personNodes', collapsedNodes')
                  /\ ReturnAfterRebuild(personNodes', collapsedNodes',
                                        Bool("importFromJSON", TRUE))

\* the document exportToJSON builds from the current state (version and
\* exportDate are not read by the import)
exportToJSON ==
  [csvFileName     |-> csvFileName,
   selectedQuarter |-> selectedQuarter,
   departments     |-> departments,
   roleTemplates   |-> roleTemplates,
   personNodes     |-> personNodes,
   collapsedNodes  |-> collapsedNodes]

Next ==
  \/ loadCSV(DefaultCsv)
       /\ UNCHANGED commandInput
  \/ \E quarter \in Periods : setSelectedQuarter(quarter)
       /\ UNCHANGED commandInput
  \/ \E templateId \in ReassignedTemplates,
        d \in SeqToSet(departments) \cup InvalidDepartments :
       reassignRole(templateId, d)
       /\ UNCHANGED commandInput
  \/ \E personId \in CallIds, managerId \in CallIds \cup {NULL} :
       setManager(personId, managerId, FALSE)
       /\ UNCHANGED commandInput
  \/ \E personIds \in Batches, managerId \in CallIds \cup {NULL} :
       bulkSetManager(personIds, managerId)
       /\ UNCHANGED commandInput
  \/ \E personId \in CallIds : removeManager(personId)
       /\ UNCHANGED commandInput
  \/ \E personIds \in Batches : bulkRemoveManager(personIds)
       /\ UNCHANGED commandInput
  \/ resetManagerAssignments
       /\ UNCHANGED commandInput
  \/ clearError
       /\ UNCHANGED commandInput
  \/ \E d \in CustomRoleDepartments : addCustomRole(d)
       /\ UNCHANGED commandInput
  \/ \E nodeId \in PersonIds \cup collapsedNodes : toggleNodeCollapse(nodeId)
       /\ UNCHANGED commandInput
  \/ \E personId \in CallIds : deletePersonNode(personId)
       /\ UNCHANGED commandInput

Spec == Init /\ [][Next]_<<vars, commandInput>>

\* assignments only, on the large file: setManager and bulkSetManager
NextMgr ==
  \/ loadCSV(LargeCsv)
       /\ UNCHANGED commandInput
  \/ \E personId \in CallIds, managerId \in CallIds \cup {NULL} :
       setManager(personId, managerId, FALSE)
       /\ UNCHANGED commandInput
  \/ \E personIds \in Batches, managerId \in CallIds \cup {NULL} :
       bulkSetManager(personIds, managerId)
       /\ UNCHANGED commandInput

SpecMgr == Init /\ [][NextMgr]_<<vars, commandInput>>

\* a deep reporting line and period switches, on the deep file: each person
\* of the role may be made to report to the next one
NextDeep ==
  \/ loadCSV(DeepCsv)
       /\ UNCHANGED commandInput
  \/ \E quarter \in Periods : setSelectedQuarter(quarter)
       /\ UNCHANGED commandInput
  \/ \E personId \in CallIds :
       /\ RoleId(personId.t, personId.i + 1) \in CallIds
       /\ setManager(personId, RoleId(personId.t, personId.i + 1), FALSE)
       /\ UNCHANGED commandInput

SpecDeep == Init /\ [][NextDeep]_<<vars, commandInput>>

\* imports of exchange files, complete and with keys missing, between
\* assignments and collapses; a handler whose rebuild would throw on undefined
\* departments is left out of the states that have them
NextImport ==
  \/ loadCSV(DefaultCsv)
       /\ UNCHANGED commandInput
  \/ \E jsonData \in ImportData : importFromJSON(jsonData)
       /\ UNCHANGED commandInput
  \/ /\ departments # UndefinedDepartments
     /\ \E personId \in PersonIds, managerId \in PersonIds \cup {NULL} :
          setManager(personId, managerId, FALSE)
       /\ UNCHANGED commandInput
  \/ /\ departments # UndefinedDepartments
     /\ \E nodeId \in PersonIds \cup collapsedNodes : toggleNodeCollapse(nodeId)
       /\ UNCHANGED commandInput
  \/ clearError
       /\ UNCHANGED commandInput

SpecImport == Init /\ [][NextImport]_<<vars, commandInput>>

\* exports that are imported again at once, between period switches,
\* assignments among the persons of the working set and collapses, on the
\* large file
NextRoundTrip ==
  \/ loadCSV(LargeCsv)
       /\ UNCHANGED commandInput
  \/ \E quarter \in Periods : setSelectedQuarter(quarter)
       /\ UNCHANGED commandInput
  \/ \E personId \in PersonIds, managerId \in PersonIds \cup {NULL} :
       setManager(personId, managerId, FALSE)
       /\ UNCHANGED commandInput
  \/ \E nodeId \in PersonIds : toggleNodeCollapse(nodeId)
       /\ UNCHANGED commandInput
  \/ importFromJSON(exportToJSON)
       /\ UNCHANGED commandInput

SpecRoundTrip == Init /\ [][NextRoundTrip]_<<vars, commandInput>>

\* head-count files with one fixed role (row 1, one person in every quarter)
\* and one role (row 5) whose four counts are drawn from 0 .. MaxHeadcount; the
\* parser skips a row whose four counts are all 0
GeneratedCsv == "headcount-generated.csv"

QuarterVectors ==
  {q \in [{"Q1", "Q2", "Q3", "Q4"} -> 0..MaxHeadcount] :
     \E x \in 1..4 : q[quarterOrder[x]] > 0}

GeneratedRoleTemplates(quarters) ==
  << [id |-> 1, departmentId |-> 0,
      quarters |-> [Q1 |-> 1, Q2 |-> 1, Q3 |-> 1, Q4 |-> 1]],
     [id |-> 5, departmentId |-> 1,
      quarters |-> [Q1 |-> quarters["Q1"], Q2 |-> quarters["Q2"],
                    Q3 |-> quarters["Q3"], Q4 |-> quarters["Q4"]]] >>

\* the store after loadCSV of a generated file
InitExpand ==
  /\ csvFileName = GeneratedCsv
  /\ departments = <<0, 1>>
  /\ \E quarters \in QuarterVectors :
       roleTemplates = GeneratedRoleTemplates(quarters)
  /\ selectedQuarter = "Q4"
  /\ personNodes = expandRoleTemplates(roleTemplates, selectedQuarter, {})
  /\ managerAssignments = EmptyMap
  /\ collapsedNodes = {}
  /\ error = NoError
  /\ nodes = BuildNodes(personNodes, collapsedNodes)
  /\ edges = BuildEdges(personNodes, collapsedNodes)
  /\ ret = Void
  /\ customCount = 0
  /\ hung = FALSE
  /\ InitCommandInput

\* period switches and department changes on a generated file, with the
\* person of role 1 reporting to anyone or to no one
NextExpand ==
  \/ \E quarter \in QUARTERS : setSelectedQuarter(quarter)
       /\ UNCHANGED commandInput
  \/ \E d \in SeqToSet(departments) : reassignRole(5, d)
       /\ UNCHANGED commandInput
  \/ \E managerId \in (CallIds \ {RoleId(1, 0)}) \cup {NULL} :
       setManager(RoleId(1, 0), managerId, FALSE)
       /\ UNCHANGED commandInput

SpecExpand == InitExpand /\ [][NextExpand]_<<vars, commandInput>>

\* reporting lines and collapses among the four persons of the large file in
\* the Full Year view: two persons of each role
NextEdges ==
  \/ loadCSV(LargeCsv)
       /\ UNCHANGED commandInput
  \/ \E quarter \in {"Q4", "Full Year"} : setSelectedQuarter(quarter)
       /\ UNCHANGED commandInput
  \/ \E personId \in PersonIds, managerId \in CallIds \cup {NULL} :
       setManager(personId, managerId, FALSE)
       /\ UNCHANGED commandInput
  \/ \E nodeId \in PersonIds : toggleNodeCollapse(nodeId)
       /\ UNCHANGED commandInput

SpecEdges == Init /\ [][NextEdges]_<<vars, commandInput>>

\* a custom role added to the persons of the large file, each person
\* reporting to the first person of role 1 or to no one
NextLeaves ==
  \/ loadCSV(LargeCsv)
       /\ UNCHANGED commandInput
  \/ \E quarter \in {"Q4", "Full Year"} : setSelectedQuarter(quarter)
       /\ UNCHANGED commandInput
  \/ \E d \in SeqToSet(departments) : addCustomRole(d)
       /\ UNCHANGED commandInput
  \/ \E personId \in PersonIds, managerId \in {RoleId(1, 0), NULL} :
       setManager(personId, managerId, FALSE)
       /\ UNCHANGED commandInput

SpecLeaves == Init /\ [][NextLeaves]_<<vars, commandInput>>

\* files for the department grid: role 1 (row 1) in dept-0 with a persons and
\* role 12 (row 12) in dept-1 with b persons in every quarter
GridCsv == "headcount-grid.csv"

GridRoleTemplates(a, b) ==
  << [id |-> 1, departmentId |-> 0,
      quarters |-> [Q1 |-> a, Q2 |-> a, Q3 |-> a, Q4 |-> a]],
     [id |-> 12, departmentId |-> 1,
      quarters |-> [Q1 |-> b, Q2 |-> b, Q3 |-> b, Q4 |-> b]] >>

\* the store after loadCSV of a grid file
InitGrid ==
  /\ csvFileName = GridCsv
  /\ departments = <<0, 1>>
  /\ \E a \in 1..MaxGridHeadcount, b \in 1..MaxGridHeadcount :
       roleTemplates = GridRoleTemplates(a, b)
  /\ selectedQuarter = "Q4"
  /\ personNodes = expandRoleTemplates(roleTemplates, selectedQuarter, {})
  /\ managerAssignments = EmptyMap
  /\ collapsedNodes = {}
  /\ error = NoError
  /\ nodes = BuildNodes(personNodes, collapsedNodes)
  /\ edges = BuildEdges(personNodes, collapsedNodes)
  /\ ret = Void
  /\ customCount = 0
  /\ hung = FALSE
  /\ InitCommandInput

\* persons without managers, or with the one report hidden by a collapse:
\* role 12 moves between the departments, the first person of role 12 may
\* report to the first person of role 1, and any person may be collapsed
NextGrid ==
  \/ \E d \in SeqToSet(departments) : reassignRole(12, d)
       /\ UNCHANGED commandInput
  \/ \E managerId \in {RoleId(1, 0), NULL} :
       setManager(RoleId(12, 0), managerId, FALSE)
       /\ UNCHANGED commandInput
  \/ \E nodeId \in PersonIds : toggleNodeCollapse(nodeId)
       /\ UNCHANGED commandInput

SpecGrid == InitGrid /\ [][NextGrid]_<<vars, commandInput>>

(* ------------------------------ CommandInput ---------------------------- *)

\* what the user can have typed into the input (command.trim() of the second
\* and third is non-empty)
CommandTexts == {"", "move the analyst", "detach the analyst"}

\* getCommandPreview(command): the modal's content, titled by the command type
getCommandPreview(c) == [type |-> c.type]

\* what interpretCommand can answer: a failure, an exception, or a command on
\* persons of the store state it was given
InterpretResults ==
  {[success |-> FALSE, thrown |-> FALSE, command |-> NoCommand],
   [success |-> FALSE, thrown |-> TRUE, command |-> NoCommand]}
  \cup {[success |-> TRUE, thrown |-> FALSE,
         command |-> [type |-> "SET_MANAGER", personId |-> p, managerId |-> m]] :
          p \in PersonIds, m \in PersonIds}
  \cup {[success |-> TRUE, thrown |-> FALSE,
         command |-> [type |-> "REMOVE_MANAGER", personId |-> p, managerId |-> NULL]] :
          p \in PersonIds}

\* onChange of the input; the input is disabled while processing or executing
setCommand(text) ==
  /\ phase \notin {"processing", "executing"}
  /\ command' = text
  /\ UNCHANGED <<phase, parsedCommand, preview, feedback, commandError,
                 requests, timers, submitted>>
  /\ UNCHANGED vars

\* handleSubmit up to the await: the interpretation request is in flight
handleSubmit ==
  /\ command # ""
  /\ phase # "processing"
  /\ submitted < MaxCommands
  /\ phase' = "processing"
  /\ commandError' = "none"
  /\ feedback' = "none"
  /\ submitted' = submitted + 1
  /\ requests' = requests \cup {submitted'}
  /\ UNCHANGED <<command, parsedCommand, preview, timers>>
  /\ UNCHANGED vars

\* handleSubmit after the await: the answer to request r has arrived
interpretCommandReturns(r, result) ==
  /\ r \in requests
  /\ requests' = requests \ {r}
  /\ IF ~result.success
     THEN /\ commandError' = IF result.thrown THEN "thrown" ELSE "failed"
          /\ phase' = "idle"
          /\ UNCHANGED <<parsedCommand, preview>>
     ELSE /\ parsedCommand' = result.command
          /\ preview' = getCommandPreview(result.command)
          /\ phase' = "previewing"
          /\ UNCHANGED commandError
  /\ UNCHANGED <<command, feedback, timers, submitted>>
  /\ UNCHANGED vars

\* executeCommand(command): the store call of the command type
executeCommand(c) ==
  IF c.type = "SET_MANAGER"
  THEN setManager(c.personId, c.managerId, FALSE)
  ELSE removeManager(c.personId)

\* result.success of executeCommand: setManager's return value; removing a
\* manager always succeeds
executeCommandSuccess(c) ==
  IF c.type = "SET_MANAGER" THEN ret'.ok ELSE TRUE

\* the confirm button of the preview modal, which is rendered while the phase
\* is previewing or executing and a preview is set, and is disabled while
\* executing.  The command runs synchronously, the feedback is shown, and the
\* 5-second timer is started; no handle to it is kept.
handleConfirm ==
  /\ phase = "previewing"
  /\ preview # NoPreview
  /\ parsedCommand # NoCommand
  /\ executeCommand(parsedCommand)
  /\ IF hung'
     THEN UNCHANGED commandInput
     ELSE /\ feedback' = IF executeCommandSuccess(parsedCommand)
                         THEN "success" ELSE "error"
          /\ IF executeCommandSuccess(parsedCommand)
             THEN /\ command' = ""
                  /\ parsedCommand' = NoCommand
                  /\ preview' = NoPreview
             ELSE UNCHANGED <<command, parsedCommand, preview>>
          /\ phase' = "complete"
          /\ timers' = timers \cup {submitted}
          /\ UNCHANGED <<commandError, requests, submitted>>

\* the cancel button or the backdrop of the preview modal
handleCancel ==
  /\ phase = "previewing"
  /\ preview # NoPreview
  /\ parsedCommand' = NoCommand
  /\ preview' = NoPreview
  /\ phase' = "idle"
  /\ UNCHANGED <<command, feedback, commandError, requests, timers, submitted>>
  /\ UNCHANGED vars

\* the clear button, shown when there is text and disabled while processing
\* or executing
handleClear ==
  /\ command # ""
  /\ phase \notin {"processing", "executing"}
  /\ command' = ""
  /\ commandError' = "none"
  /\ feedback' = "none"
  /\ parsedCommand' = NoCommand
  /\ preview' = NoPreview
  /\ phase' = "idle"
  /\ UNCHANGED <<requests, timers, submitted>>
  /\ UNCHANGED vars

\* the dismiss button of the feedback banner
dismissFeedback ==
  /\ feedback # "none"
  /\ feedback' = "none"
  /\ phase' = IF phase = "complete" THEN "idle" ELSE phase
  /\ UNCHANGED <<command, parsedCommand, preview, commandError, requests, timers,
                 submitted>>
  /\ UNCHANGED vars

\* the dismiss button of the error banner
dismissError ==
  /\ commandError # "none"
  /\ commandError' = "none"
  /\ UNCHANGED <<phase, command, parsedCommand, preview, feedback, requests, timers,
                 submitted>>
  /\ UNCHANGED vars

\* the setTimeout callback of handleConfirm, 5 seconds after it was started
autoDismiss(t) ==
  /\ t \in timers
  /\ timers' = timers \ {t}
  /\ feedback' = "none"
  /\ phase' = "idle"
  /\ UNCHANGED <<command, parsedCommand, preview, commandError, requests, submitted>>
  /\ UNCHANGED vars

\* the command input over a loaded file of two persons
NextCommand ==
  \/ /\ csvFileName = NoFile
     /\ loadCSV(DefaultCsv)
     /\ UNCHANGED commandInput
  \/ \E text \in CommandTexts : setCommand(text)
  \/ handleSubmit
  \/ \E r \in requests, result \in InterpretResults : interpretCommandReturns(r, result)
  \/ handleConfirm
  \/ handleCancel
  \/ handleClear
  \/ dismissFeedback
  \/ dismissError
  \/ \E t \in timers : autoDismiss(t)

SpecCommand == Init /\ [][NextCommand]_<<vars, commandInput>>

(* ------------------------ vocabulary of the claims ---------------------- *)

RECURSIVE MapWalkEnds(_, _, _)
\* following m from cur reaches an id without an entry within n steps
MapWalkEnds(m, cur, n) ==
  IF cur \notin DOMAIN m THEN TRUE
  ELSE IF n = 0 THEN FALSE
  ELSE MapWalkEnds(m, m[cur], n - 1)

\* m, read as the graph key -> value, has no cycle and no self-loop
MapAcyclic(m) ==
  \A key \in DOMAIN m : MapWalkEnds(m, key, Cardinality(DOMAIN m))

\* the managerId relation of a working set as a map id -> managerId
PersonMap(pn) ==
  [id \in {pn[x].id : x \in {y \in DOMAIN pn : pn[y].managerId # NULL}} |->
     ManagerOf(id, pn)]

RECURSIVE ChainFrom(_, _, _)
ChainFrom(cur, pn, n) ==
  IF cur = NULL \/ n = 0 THEN {}
  ELSE {cur} \cup ChainFrom(ManagerOf(cur, pn), pn, n - 1)

\* the ids on the upward manager chain of id: id, its manager, and so on
UpwardChain(id, pn) == ChainFrom(id, pn, Len(pn) + 1)

\* with the edge id -> managerId added to the managerId relation of pn, the
\* manager links followed from id never end: id would sit on a cycle or below
\* one
CreatesCycle(id, managerId, pn) ==
  /\ managerId # NULL
  /\ LET m == MapSet(PersonMap(pn), id, managerId)
     IN ~MapWalkEnds(m, id, Cardinality(DOMAIN m))

\* a step that regenerates the working set
Regenerates ==
  \/ \E quarter \in QUARTERS : setSelectedQuarter(quarter)
  \/ \E templateId \in ReassignedTemplates,
        d \in SeqToSet(departments) \cup InvalidDepartments :
       reassignRole(templateId, d)

RECURSIVE Within(_, _, _, _)
\* the ids of S and those reached from them through at most k manager links
\* of pn
Within(S, pn, assignments, k) ==
  IF k = 0 THEN S
  ELSE Within(S \cup {assignments[x] : x \in S \cap Ids(pn) \cap DOMAIN assignments},
              pn, assignments, k - 1)

\* the ids of the expansion of the templates for a period
ExpansionIds(quarter) ==
  Ids(expandRoleTemplates(roleTemplates, quarter,
        {managerAssignments[key] : key \in DOMAIN managerAssignments} \ {NULL}))

\* the strict ancestors of id: its manager, the manager's manager, and so on
StrictAncestors(id, pn) == UpwardChain(ManagerOf(id, pn), pn)

\* the ids of the persons that pass the visibility filter of rebuildChart
VisibleIds(pn, collapsed) == Ids(visiblePersonNodes(pn, collapsed))

\* the collapsed sets the visibility check is evaluated on
CollapsedSets == {S \in SUBSET CallIds : Cardinality(S) <= MaxCollapsedChecked}

\* the required top-level keys a JSON document lacks
MissingKeys(jsonData) ==
  {key \in RequiredKeys :
     \/ key = "departments" /\ jsonData.departments = UndefinedDepartments
     \/ key = "roleTemplates" /\ jsonData.roleTemplates = UndefinedRoleTemplates
     \/ key = "personNodes" /\ jsonData.personNodes = UndefinedPersonNodes
     \/ key = "selectedQuarter" /\ jsonData.selectedQuarter = UndefinedQuarter}

\* the head count of a template for a period: its count for a quarter, the
\* largest of its four counts for the full year
PeriodHeadcount(template, quarter) ==
  IF quarter = "Full Year"
  THEN CHOOSE n \in {template.quarters[quarterOrder[x]] : x \in 1..4} :
         \A x \in 1..4 : template.quarters[quarterOrder[x]] <= n
  ELSE template.quarters[quarter]

\* the earliest of Q1..Q4 in which the template has a count > 0
FirstActiveQuarter(template) ==
  quarterOrder[CHOOSE x \in 1..4 :
                 /\ template.quarters[quarterOrder[x]] > 0
                 /\ \A y \in 1..(x - 1) : template.quarters[quarterOrder[y]] = 0]

(* -------------------------------- claims -------------------------------- *)

\* C1: starting from an empty canonical map, after any sequence of setManager
\* and bulkSetManager calls, accepted or rejected, the canonical map read as
\* the graph personId -> managerId has no cycle and no self-loop.
C1_CanonicalMapAcyclic == MapAcyclic(managerAssignments)

\* C2: in every state reachable by any interleaving of the store operations
\* the managerId relation over the full working set, placeholders included,
\* is acyclic and irreflexive.
C2_WorkingSetIsForest == MapAcyclic(PersonMap(personNodes))

\* C3: setManager(personId, managerId) with a non-null managerId returns false
\* exactly when managerId = personId or personId lies on managerId's upward
\* manager chain; a false return leaves the canonical map and every person's
\* managerId unchanged; otherwise it returns true.
C3_SetManagerRejectsExactlyCycles ==
  [][\A personId \in CallIds, managerId \in CallIds :
       ((ret'.op = "setManager" \/ hung') /\ setManager(personId, managerId, FALSE)) =>
         /\ (ret' = Bool("setManager", FALSE))
              <=> (managerId = personId
                   \/ personId \in UpwardChain(managerId, personNodes))
         /\ ret' = Bool("setManager", FALSE)
              => UNCHANGED <<personNodes, managerAssignments>>
         /\ ret' # Bool("setManager", FALSE) => ret' = Bool("setManager", TRUE)]_vars

\* C4: in every reachable state each person of the working set carries exactly
\* the manager the canonical map records for it, and null when the map has no
\* entry for it.
C4_ManagerIdIsProjection ==
  \A x \in DOMAIN personNodes :
    personNodes[x].managerId = MapGet(managerAssignments, personNodes[x].id)

\* C5: a setSelectedQuarter call leaves the canonical map as it was, and after
\* it every assignment A -> B between template-derived persons whose A is in
\* the working set has A.managerId = B and B in the working set (as an active
\* node or as a placeholder).
C5_AssignmentsSurvivePeriodSwitch ==
  [][(\E quarter \in QUARTERS : setSelectedQuarter(quarter)) =>
       /\ managerAssignments' = managerAssignments
       /\ \A A \in DOMAIN managerAssignments' :
            (A.k = "role" /\ managerAssignments'[A].k = "role"
               /\ A \in Ids(personNodes'))
              => /\ ManagerOf(A, personNodes') = managerAssignments'[A]
                 /\ managerAssignments'[A] \in Ids(personNodes')]_vars

\* C5 as amended: a setSelectedQuarter call leaves the canonical map as it
\* was, and after it every assignment A -> B between template-derived persons
\* whose A is in the working set has A.managerId = B; B is in the working set
\* whenever A belongs to the period's expansion or is reached from it through
\* at most nine manager links (the manager of a placeholder synthesized in the
\* tenth pass is not synthesized).
C5_AssignmentsSurviveWithinCap ==
  [][(\E quarter \in QUARTERS : setSelectedQuarter(quarter)) =>
       /\ managerAssignments' = managerAssignments
       /\ \A A \in DOMAIN managerAssignments' :
            (A.k = "role" /\ managerAssignments'[A].k = "role"
               /\ A \in Ids(personNodes'))
              => /\ ManagerOf(A, personNodes') = managerAssignments'[A]
                 /\ A \in Within(ExpansionIds(selectedQuarter'), personNodes',
                                 managerAssignments', MaxIterations - 1)
                      => managerAssignments'[A] \in Ids(personNodes')]_vars

\* in Q1 role-1-person-0 reports to a placeholder that itself reports to a
\* placeholder
C5_Witness ==
  /\ selectedQuarter = "Q1"
  /\ \E x, y, z \in DOMAIN personNodes :
       /\ personNodes[x].id = RoleId(1, 0)
       /\ personNodes[x].managerId = personNodes[y].id
       /\ personNodes[y].isFutureRole
       /\ personNodes[y].managerId = personNodes[z].id
       /\ personNodes[z].isFutureRole
       /\ MapGet(managerAssignments, RoleId(1, 0)) = personNodes[y].id

\* C6: a custom person stays in the working set, with its managerId, across
\* every regeneration of the working set; only deletePersonNode removes it.
C6_CustomPersonSurvivesRegeneration ==
  [][\A x \in DOMAIN personNodes :
       personNodes[x].isCustom =>
         /\ personNodes[x].id \in Ids(personNodes')
              \/ deletePersonNode(personNodes[x].id)
         /\ Regenerates =>
              ManagerOf(personNodes[x].id, personNodes') = personNodes[x].managerId]_vars

\* C7: after setSelectedQuarter every non-null managerId carried by a person
\* of the working set is the id of a person of the working set.
C7_NoDanglingManagerAfterSwitch ==
  [][(\E quarter \in QUARTERS : setSelectedQuarter(quarter)) =>
       \A x \in DOMAIN personNodes' :
         personNodes'[x].managerId # NULL
           => personNodes'[x].managerId \in Ids(personNodes')]_vars

\* C8: bulkSetManager(personIds, managerId) judges every id against the graph
\* as it was before the call, assigns managerId in the canonical map and (to
\* the persons present) in the working set to exactly the ids that would not
\* create a cycle, leaves every other id unchanged, and returns the number of
\* ids it assigned.
C8_BulkSetManagerAssignsExactlyValidIds ==
  ~hung =>
    \A personIds \in Batches, managerId \in CallIds \cup {NULL} :
      LET r == bulkSetManagerResult(personIds, managerId,
                                    personNodes, managerAssignments)
          valid == {id \in personIds : ~CreatesCycle(id, managerId, personNodes)}
      IN /\ \A id \in valid :
              /\ MapGet(r.managerAssignments, id) = managerId
              /\ id \in PersonIds => ManagerOf(id, r.personNodes) = managerId
         /\ \A id \in PersonIds \ valid :
              ManagerOf(id, r.personNodes) = ManagerOf(id, personNodes)
         /\ \A id \in ((DOMAIN managerAssignments)
                       \cup (DOMAIN r.managerAssignments)) \ valid :
              MapGet(r.managerAssignments, id) = MapGet(managerAssignments, id)
         /\ Ids(r.personNodes) = PersonIds
         /\ r.ret = Count("bulkSetManager", Cardinality(valid))
         /\ ~RebuildDiverges(r.personNodes, collapsedNodes)

\* a batch of which one id was assigned and one was skipped
C8_Witness ==
  /\ ret = Count("bulkSetManager", 1)
  /\ error = [kind |-> "skipped", n |-> 1]

\* C9: after a bulkSetManager call that skipped k >= 1 ids the error is the
\* one aggregate message carrying k; when no id was skipped the error is null.
C9_BulkSetManagerAggregateWarning ==
  ~hung =>
    \A personIds \in Batches, managerId \in CallIds \cup {NULL} :
      LET r == bulkSetManagerResult(personIds, managerId,
                                    personNodes, managerAssignments)
          k == Cardinality({id \in personIds :
                              CreatesCycle(id, managerId, personNodes)})
      IN /\ r.error = IF k >= 1 THEN [kind |-> "skipped", n |-> k] ELSE NoError
         /\ r.ret = Count("bulkSetManager", Cardinality(personIds) - k)

\* three ids of which one was cyclic: the call returned 2 and warns of 1
C9_Witness ==
  /\ ret = Count("bulkSetManager", 2)
  /\ error = [kind |-> "skipped", n |-> 1]

\* C10: after deletePersonNode(P) succeeds for a custom person P, P is not in
\* the working set, no person has managerId P, the canonical map has neither
\* key P nor value P, and the persons that reported to P are unmanaged.
C10_DeletionCascadeComplete ==
  [][\A P \in PersonIds :
       ((ret'.op = "deletePersonNode" \/ hung')
          /\ Person(P).isCustom /\ deletePersonNode(P)) =>
         /\ P \notin Ids(personNodes')
         /\ \A x \in DOMAIN personNodes' : personNodes'[x].managerId # P
         /\ P \notin DOMAIN managerAssignments'
         /\ \A key \in DOMAIN managerAssignments' : managerAssignments'[key] # P
         /\ \A x \in DOMAIN personNodes :
              (personNodes[x].managerId = P /\ personNodes[x].id # P)
                => /\ ManagerOf(personNodes[x].id, personNodes') = NULL
                   /\ personNodes[x].id \notin DOMAIN managerAssignments'
         /\ ret' = Bool("deletePersonNode", TRUE)]_vars

\* the custom person has been deleted
C10_Witness ==
  /\ ret = Bool("deletePersonNode", TRUE)
  /\ customCount > 0
  /\ \A x \in DOMAIN personNodes : ~personNodes[x].isCustom

\* C11: deletePersonNode(id) for a person that is not custom, or for an id
\* that is not in the working set, returns false and leaves the working set,
\* the canonical map and the collapsed set unchanged; only the error is set.
C11_IllegalDeletionRejected ==
  [][\A id \in CallIds :
       ((ret'.op = "deletePersonNode" \/ hung')
          /\ (id \notin PersonIds \/ ~Person(id).isCustom)
          /\ deletePersonNode(id)) =>
         /\ ret' = Bool("deletePersonNode", FALSE)
         /\ error' \in {Err("person not found"), Err("not custom")}
         /\ UNCHANGED <<csvFileName, departments, roleTemplates, personNodes,
                        managerAssignments, selectedQuarter, collapsedNodes,
                        nodes, edges, hung>>]_vars

\* the deletion of a person of the file was refused
C11_Witness ==
  /\ ret = Bool("deletePersonNode", FALSE)
  /\ error = Err("not custom")
  /\ personNodes # << >>

\* C12: removing managers is unconditional: after setManager(p, null),
\* removeManager(p) or bulkRemoveManager(ids) every named id has no key in the
\* canonical map and a null managerId in the working set, and the assignment
\* of every id that was not named is unchanged.
C12_RemovalUnconditional ==
  [][\A personIds \in Batches :
       (\/ bulkRemoveManager(personIds)
        \/ \E p \in personIds :
             /\ personIds = {p}
             /\ removeManager(p) \/ setManager(p, NULL, FALSE)) =>
         /\ \A id \in personIds :
              /\ id \notin DOMAIN managerAssignments'
              /\ ManagerOf(id, personNodes') = NULL
         /\ \A id \in (CallIds \cup DOMAIN managerAssignments) \ personIds :
              /\ MapGet(managerAssignments', id) = MapGet(managerAssignments, id)
              /\ ManagerOf(id, personNodes') = ManagerOf(id, personNodes)
         /\ DOMAIN managerAssignments' \subseteq DOMAIN managerAssignments
         /\ Ids(personNodes') = PersonIds
         /\ ret' # Bool("setManager", FALSE)]_vars

\* the only assignment, which had brought a placeholder into the working set,
\* has been removed by setManager(p, null)
C12_Witness ==
  /\ ret = Bool("setManager", TRUE)
  /\ managerAssignments = EmptyMap
  /\ \E x \in DOMAIN personNodes : personNodes[x].isFutureRole

\* C13: after rebuild a person is in the visible set if and only if no
\* strict ancestor on its managerId chain is in the collapsed set; a collapsed
\* person none of whose ancestors is collapsed stays visible, and every
\* descendant of a collapsed person is hidden, whether or not deeper nodes
\* are collapsed as well.
C13_VisibleIffNoCollapsedAncestor ==
  /\ ~hung =>
       Ids(nodes) = {id \in PersonIds :
                      StrictAncestors(id, personNodes) \cap collapsedNodes = {}}
  /\ \A S \in CollapsedSets :
       ~RebuildDiverges(personNodes, S) =>
         LET visible == VisibleIds(personNodes, S)
         IN /\ visible = {id \in PersonIds :
                            StrictAncestors(id, personNodes) \cap S = {}}
            /\ \A c \in S \cap PersonIds :
                 StrictAncestors(c, personNodes) \cap S = {} => c \in visible
            /\ \A c \in S, id \in PersonIds :
                 c \in StrictAncestors(id, personNodes) => id \notin visible

\* a collapsed person is shown while its report and the report's report are
\* hidden
C13_Witness ==
  /\ ~hung
  /\ \E a, b, c \in DOMAIN personNodes :
       /\ personNodes[a].managerId = personNodes[b].id
       /\ personNodes[b].managerId = personNodes[c].id
       /\ collapsedNodes = {personNodes[c].id}
       /\ personNodes[c].id \in Ids(nodes)
       /\ personNodes[a].id \notin Ids(nodes)
       /\ personNodes[b].id \notin Ids(nodes)

\* C14: visibility is monotone in the collapsed set: for the same working
\* set, the visible set computed with a collapsed set S plus one more id is a
\* subset of the visible set computed with S; a toggleNodeCollapse call that
\* collapses one more node never adds a node to the diagram.
C14_VisibilityMonotone ==
  /\ [](\A S \in CollapsedSets, id \in CallIds :
          ~RebuildDiverges(personNodes, S) =>
            /\ ~RebuildDiverges(personNodes, S \cup {id})
            /\ VisibleIds(personNodes, S \cup {id})
                 \subseteq VisibleIds(personNodes, S))
  /\ [][\A nodeId \in PersonIds :
          (nodeId \notin collapsedNodes /\ toggleNodeCollapse(nodeId)) =>
            /\ ~hung'
            /\ Ids(nodes') \subseteq Ids(nodes)]_vars

\* a collapse has taken a report out of the diagram
C14_Witness ==
  /\ ~hung
  /\ \E x, y \in DOMAIN personNodes :
       /\ personNodes[x].managerId = personNodes[y].id
       /\ personNodes[y].id \in collapsedNodes
       /\ personNodes[x].id \notin Ids(nodes)
       /\ personNodes[y].id \in Ids(nodes)

\* C15: layout totality: in every reachable state every visible person id
\* is a key of the position map calculateLayout returns, in grid mode and in
\* hierarchical mode alike, so that rebuild has a fresh position for every
\* visible person.
C15_LayoutTotal ==
  ~hung =>
    /\ Ids(nodes) \subseteq DOMAIN newPositions(personNodes, collapsedNodes, departments)
    /\ \A S \in CollapsedSets :
         ~RebuildDiverges(personNodes, S) =>
           LET vis == visiblePersonNodes(personNodes, S)
           IN /\ Ids(vis) \subseteq DOMAIN calculateLayout(vis, departments)
              /\ hasHierarchy(vis) =>
                   Ids(vis) \subseteq DOMAIN calculateHierarchicalLayout(vis, departments)
              /\ ~hasHierarchy(vis) =>
                   Ids(vis) \subseteq DOMAIN calculateGridLayout(vis, departments)

\* a visible chain of three persons has been laid out hierarchically
C15_Witness ==
  /\ ~hung
  /\ \E a, b, c \in DOMAIN nodes :
       /\ ManagerOf(nodes[a].id, personNodes) = nodes[b].id
       /\ ManagerOf(nodes[b].id, personNodes) = nodes[c].id
       /\ {nodes[a].id, nodes[b].id, nodes[c].id}
            \subseteq DOMAIN newPositions(personNodes, collapsedNodes, departments)

\* C16: the layout mode is chosen from the full working set, not from the
\* visible subset: rebuild uses the hierarchical layout whenever some person
\* of the full working set has a non-null manager, even if every such person
\* is hidden by a collapse, and the department grid only when no person of
\* the full set has a manager.
C16_LayoutModeFromFullSet ==
  ~hung =>
    (hasHierarchy(visiblePersonNodes(personNodes, collapsedNodes))
       <=> \E x \in DOMAIN personNodes : personNodes[x].managerId # NULL)

\* C17: import is all-or-nothing: importFromJSON on data that lacks a
\* required top-level key (departments, roleTemplates, personNodes,
\* selectedQuarter) returns false and leaves the departments, the templates,
\* the working set, the canonical map, the selected period and the collapsed
\* set exactly as they were before the call.
C17_ImportAllOrNothing ==
  [][\A jsonData \in ImportData :
       (MissingKeys(jsonData) # {} /\ importFromJSON(jsonData)) =>
         /\ ret' = Bool("importFromJSON", FALSE)
         /\ UNCHANGED <<departments, roleTemplates, personNodes,
                        managerAssignments, selectedQuarter, collapsedNodes>>]_vars

\* C18: the derived diagram is never stale: after each mutating store
\* operation returns, the node list holds exactly the visible persons of the
\* current working set under the current collapsed set, each once, and a
\* node's isManager flag is true iff some person of the full working set has
\* the node's id as managerId.
C18_DiagramNeverStale ==
  ~hung =>
    /\ Ids(nodes) = {id \in PersonIds :
                       StrictAncestors(id, personNodes) \cap collapsedNodes = {}}
    /\ Cardinality(Ids(nodes)) = Len(nodes)
    /\ \A x \in DOMAIN nodes :
         nodes[x].isManager
           <=> \E y \in DOMAIN personNodes : personNodes[y].managerId = nodes[x].id

\* C19: with no referenced manager ids, the expansion of a template for a
\* concrete period yields exactly headcount(period) nodes with the ids
\* '{templateId}-person-{i}' for i in [0, headcount), and for the Full Year
\* view exactly the maximum over the four quarters; the ids of one expansion
\* are pairwise distinct.
C19_ExpansionYieldsHeadcount ==
  \A quarter \in QUARTERS :
    /\ \A x \in DOMAIN roleTemplates :
         LET template == roleTemplates[x]
             expansion == ExpandTemplate(template, quarter, {})
             headcount == PeriodHeadcount(template, quarter)
         IN /\ Len(expansion) = headcount
            /\ \A i \in 0..(headcount - 1) :
                 expansion[i + 1].id = RoleId(template.id, i)
    /\ LET all == expandRoleTemplates(roleTemplates, quarter, {})
       IN /\ Cardinality(Ids(all)) = Len(all)
          /\ Ids(all) = UNION {{RoleId(roleTemplates[x].id, i) :
                                  i \in 0..(PeriodHeadcount(roleTemplates[x], quarter) - 1)} :
                               x \in DOMAIN roleTemplates}

\* the full year shows two persons of a role that has two in Q2 or Q3 and
\* fewer in Q4
C19_Witness ==
  /\ selectedQuarter = "Full Year"
  /\ managerAssignments = EmptyMap
  /\ \E x \in DOMAIN roleTemplates :
       /\ roleTemplates[x].quarters.Q4 < 2
       /\ PeriodHeadcount(roleTemplates[x], "Full Year") = 2
       /\ {RoleId(roleTemplates[x].id, 0), RoleId(roleTemplates[x].id, 1)}
            \subseteq PersonIds

\* C20: for a template whose count in the selected period is 0, the expansion
\* includes the instance '{templateId}-person-{i}' exactly when that id is in
\* referencedManagerIds, for any index i; each included node has
\* isFutureRole = true and startQuarter = the earliest of Q1..Q4 with a
\* count > 0.
C20_ZeroCountIncludedIffReferenced ==
  \A x \in DOMAIN roleTemplates, quarter \in QUARTERS,
     referencedManagerIds \in SUBSET DataIds(roleTemplates) :
    LET template == roleTemplates[x]
        expansion == ExpandTemplate(template, quarter, referencedManagerIds)
    IN PeriodHeadcount(template, quarter) = 0 =>
         /\ \A i \in 0..MaxHeadcount :
              RoleId(template.id, i) \in Ids(expansion)
                <=> RoleId(template.id, i) \in referencedManagerIds
         /\ \A k \in DOMAIN expansion :
              /\ expansion[k].isFutureRole
              /\ expansion[k].startQuarter = FirstActiveQuarter(template)

\* C21: an expanded node has isFutureRole = true only when it exists solely
\* as a manager placeholder, that is when its instance index is not below its
\* template's head count for the selected period; a node within the head
\* count is never marked future, also in the Full Year view and also when it
\* is referenced as someone's manager.
C21_FutureOnlyBeyondHeadcount ==
  \A x \in DOMAIN roleTemplates, quarter \in QUARTERS,
     referencedManagerIds \in SUBSET DataIds(roleTemplates) :
    LET template == roleTemplates[x]
        expansion == ExpandTemplate(template, quarter, referencedManagerIds)
    IN \A k \in DOMAIN expansion :
         expansion[k].isFutureRole
           => expansion[k].id.i >= PeriodHeadcount(template, quarter)

\* C22: id stability: for every template T, every k >= 1 and every two
\* periods A and B in which T's head count is at least k, the person id
\* 'T-person-(k-1)' is present in the expansion for A and in the expansion
\* for B, whatever manager ids are referenced.
C22_IdsStableAcrossPeriods ==
  \A x \in DOMAIN roleTemplates, A \in QUARTERS, B \in QUARTERS,
     referencedManagerIds \in SUBSET DataIds(roleTemplates) :
    LET template == roleTemplates[x]
    IN \A k \in 1..MaxHeadcount :
         (PeriodHeadcount(template, A) >= k /\ PeriodHeadcount(template, B) >= k)
           => /\ RoleId(template.id, k - 1)
                   \in Ids(expandRoleTemplates(roleTemplates, A, referencedManagerIds))
              /\ RoleId(template.id, k - 1)
                   \in Ids(expandRoleTemplates(roleTemplates, B, referencedManagerIds))

\* after a switch from Q4 to Q2 the second person of a role that has two
\* persons in both quarters is in the working set
C22_Witness ==
  /\ selectedQuarter = "Q2"
  /\ \E x \in DOMAIN roleTemplates :
       /\ roleTemplates[x].quarters.Q2 = 2
       /\ roleTemplates[x].quarters.Q4 = 2
       /\ RoleId(roleTemplates[x].id, 1) \in PersonIds

\* the visible non-manager persons that report to managerId and have role
\* key roleKey, as indices of the working set
LeafGroup(managerId, roleKey) ==
  {x \in DOMAIN personNodes :
     /\ personNodes[x].id \in Ids(nodes)
     /\ personNodes[x].managerId = managerId
     /\ RoleKey(personNodes[x]) = roleKey
     /\ ~IsManagerIn(personNodes[x].id, personNodes)}

\* the edge list holds an edge from source to target
HasEdge(source, target) ==
  \E e \in DOMAIN edges : edges[e].source = source /\ edges[e].target = target

\* C23: in the edge list built by rebuild, among the visible non-manager
\* persons that share the same visible manager and the same role key
\* (templateId, or the person's own id for a custom role), exactly one, the
\* first in working-set order, has an edge from that manager; the others have
\* none.
C23_OneEdgePerLeafGroup ==
  ~hung =>
    \A m \in DOMAIN personNodes, r \in DOMAIN personNodes :
      LET managerId == personNodes[m].id
          group == LeafGroup(managerId, RoleKey(personNodes[r]))
      IN (managerId \in Ids(nodes) /\ group # {}) =>
           \A x \in group :
             HasEdge(managerId, personNodes[x].id)
               <=> \A y \in group : x <= y

\* C24: every visible person who is a manager (has at least one report in the
\* full working set) and whose own manager is visible has an edge from that
\* manager in the edge list, whatever role it shares with its siblings; and
\* every emitted edge joins two persons that are both in the node list.
C24_ManagerEdgesAlwaysDrawn ==
  ~hung =>
    /\ \A x \in DOMAIN personNodes :
         LET person == personNodes[x]
         IN (/\ person.id \in Ids(nodes)
             /\ IsManagerIn(person.id, personNodes)
             /\ person.managerId \in Ids(nodes))
              => HasEdge(person.managerId, person.id)
    /\ \A e \in DOMAIN edges :
         edges[e].source \in Ids(nodes) /\ edges[e].target \in Ids(nodes)

\* two persons of one role report to the same visible manager, the second
\* of them has a report of its own, and both have an edge
C24_Witness ==
  /\ ~hung
  /\ \E x \in DOMAIN personNodes, y \in DOMAIN personNodes :
       /\ x < y
       /\ RoleKey(personNodes[x]) = RoleKey(personNodes[y])
       /\ personNodes[x].managerId = personNodes[y].managerId
       /\ IsManagerIn(personNodes[y].id, personNodes)
       /\ HasEdge(personNodes[x].managerId, personNodes[x].id)
       /\ HasEdge(personNodes[y].managerId, personNodes[y].id)

\* the visible persons of the department with index d, in working-set order
VisibleInDepartment(d) ==
  LET InDept(p) == p.departmentId = departments[d]
  IN SelectSeq(visiblePersonNodes(personNodes, collapsedNodes), InDept)

\* C25: in grid layout the person at index i among the visible persons of one
\* department is placed at column i mod 4 and row i div 4 of that department's
\* block (with 5 people in one department, index 4 is at row 1, column 0),
\* and the blocks of successive departments, taken in department order, do
\* not overlap vertically.
C25_GridByDepartment ==
  (~hung /\ ~hasHierarchy(visiblePersonNodes(personNodes, collapsedNodes))) =>
    LET pos == newPositions(personNodes, collapsedNodes, departments)
    IN /\ \A d \in DOMAIN departments :
            LET deptNodes == VisibleInDepartment(d)
            IN \A k \in DOMAIN deptNodes :
                 /\ pos[deptNodes[k].id].x = ((k - 1) % 4) * NODE_SPACING_X
                 /\ pos[deptNodes[k].id].y
                      = pos[deptNodes[1].id].y + ((k - 1) \div 4) * NODE_SPACING_Y
       /\ \A d1 \in DOMAIN departments, d2 \in DOMAIN departments :
            d1 < d2 =>
              \A k1 \in DOMAIN VisibleInDepartment(d1),
                 k2 \in DOMAIN VisibleInDepartment(d2) :
                pos[VisibleInDepartment(d1)[k1].id].y + NODE_SPACING_Y
                  <= pos[VisibleInDepartment(d2)[k2].id].y

\* a grid of five visible persons in the first department above a second
\* department, with one more person hidden by a collapse
C25_Witness ==
  /\ ~hung
  /\ ~hasHierarchy(visiblePersonNodes(personNodes, collapsedNodes))
  /\ Len(VisibleInDepartment(1)) = 5
  /\ Len(VisibleInDepartment(2)) >= 1
  /\ Len(nodes) < Len(personNodes)
  /\ newPositions(personNodes, collapsedNodes, departments)
       [VisibleInDepartment(1)[5].id] = Pos(0, NODE_SPACING_Y)

\* C26: every store operation runs to completion in every reachable state:
\* the uncapped ancestor walk of the visibility check in rebuildChart, the
\* subtree recursion of the hierarchical layout and the placeholder loop of
\* setSelectedQuarter terminate after any sequence of setManager,
\* bulkSetManager, reassignRole, setSelectedQuarter, addCustomRole and
\* deletePersonNode calls.
C26_OperationsTerminate == ~hung

\* the working set with the managerId of the person id set to null
Detached(pn, id) ==
  [x \in DOMAIN pn |->
     IF pn[x].id = id THEN [pn[x] EXCEPT !.managerId = NULL] ELSE pn[x]]

\* C27: a person whose managerId denotes no person of the working set (a
\* dangling reference left after the 10-pass cap of the placeholder loop or
\* because the manager cannot be synthesized) is treated by rebuild as having
\* no manager: it is visible whatever the collapsed set contains, it is
\* positioned by the layout as a root, and it has no edge.
C27_DanglingManagerIsRoot ==
  ~hung =>
    \A x \in DOMAIN personNodes :
      LET person == personNodes[x]
          vis == visiblePersonNodes(personNodes, collapsedNodes)
      IN (person.managerId # NULL /\ person.managerId \notin PersonIds) =>
           /\ person.id \in Ids(nodes)
           /\ person.id \in Ids(vis) =>
                newPositions(personNodes, collapsedNodes, departments)[person.id]
                  = calculateHierarchicalLayout(Detached(vis, person.id),
                                                departments)[person.id]
           /\ \A e \in DOMAIN edges : edges[e].target # person.id

\* C28: reassignRole(templateId, newDeptId) changes only the department of
\* that template and of its persons: the set of persons in the working set,
\* every person's managerId and the canonical map are the same after the call
\* as before it.
C28_ReassignChangesOnlyDepartment ==
  [][\A templateId \in ReassignedTemplates,
        d \in SeqToSet(departments) \cup InvalidDepartments :
       reassignRole(templateId, d) =>
         /\ Ids(personNodes') = Ids(personNodes)
         /\ \A id \in Ids(personNodes) :
              ManagerOf(id, personNodes') = ManagerOf(id, personNodes)
         /\ managerAssignments' = managerAssignments
         /\ \A x \in DOMAIN roleTemplates :
              roleTemplates[x].id # templateId => roleTemplates'[x] = roleTemplates[x]
         /\ \A x \in DOMAIN personNodes, y \in DOMAIN personNodes' :
              (personNodes'[y].id = personNodes[x].id
               /\ personNodes[x].templateId # templateId)
                => personNodes'[y].departmentId = personNodes[x].departmentId]_vars

\* C29: export followed by import is lossless for relationships: in every
\* reachable state importFromJSON(exportToJSON()) succeeds and leaves the
\* canonical manager-assignment map equal to what it was before the export,
\* including the entries whose person is not active in the currently selected
\* period.
C29_ExportImportKeepsAssignments ==
  [][importFromJSON(exportToJSON) =>
       /\ ret' = Bool("importFromJSON", TRUE)
       /\ managerAssignments' = managerAssignments]_vars

\* the walk up the managerId links of pn from id comes back to an id it has
\* already left
WalkRevisits(id, pn) ==
  ~MapWalkEnds(PersonMap(pn), id, Cardinality(DOMAIN PersonMap(pn)))

LeafManagers(vis) ==
  {m \in DOMAIN vis :
     /\ Children(vis[m].id, vis) # << >>
     /\ ~childrenAreManagers(Children(vis[m].id, vis), vis)}

\* C31: in hierarchical layout, for a manager all of whose visible direct
\* reports are leaves: two reports get the same x iff they share the same role
\* key, the reports of one column get pairwise distinct y below the manager,
\* and the manager's subtree width is determined by the number of distinct
\* role keys among its reports, not by the number of reports.
C31_LeafReportsInRoleColumns ==
  LET vis == visiblePersonNodes(personNodes, collapsedNodes)
  IN (~hung /\ hasHierarchy(vis)) =>
       LET pos == newPositions(personNodes, collapsedNodes, departments)
       IN \A m \in LeafManagers(vis) :
            LET reports == Children(vis[m].id, vis)
                roleKeys == {RoleKey(reports[a]) : a \in DOMAIN reports}
                numColumns == Cardinality(roleKeys)
            IN /\ \A a \in DOMAIN reports, b \in DOMAIN reports :
                    /\ pos[reports[a].id].x = pos[reports[b].id].x
                         <=> RoleKey(reports[a]) = RoleKey(reports[b])
                    /\ (a # b /\ pos[reports[a].id].x = pos[reports[b].id].x)
                         => pos[reports[a].id].y # pos[reports[b].id].y
                    /\ pos[reports[a].id].y > pos[vis[m].id].y
               /\ getSubtreeWidth(vis[m].id, vis)
                    = Max(NODE_WIDTH,
                          numColumns * NODE_WIDTH + (numColumns - 1) * HORIZONTAL_GAP)

\* a visible manager has three leaf reports of two roles: two columns, one of
\* them with two persons stacked
C31_Witness ==
  LET vis == visiblePersonNodes(personNodes, collapsedNodes)
  IN /\ ~hung
     /\ \E m \in LeafManagers(vis) :
          LET reports == Children(vis[m].id, vis)
          IN /\ Len(reports) = 3
             /\ Cardinality({RoleKey(reports[a]) : a \in DOMAIN reports}) = 2
             /\ getSubtreeWidth(vis[m].id, vis) = 2 * NODE_WIDTH + HORIZONTAL_GAP

\* the visible persons without manager and without report, as indices of vis
Unassigned(vis) ==
  {u \in DOMAIN vis :
     vis[u].managerId = NULL /\ ~IsManagerIn(vis[u].id, personNodes)}

\* the visible persons of the subtrees of the roots, as indices of vis
InSubtrees(vis) ==
  {t \in DOMAIN vis :
     \/ vis[t].managerId \in Ids(vis)
     \/ Children(vis[t].id, vis) # << >>}

\* the index of department d in the department list
DepartmentIndex(d) == CHOOSE x \in DOMAIN departments : departments[x] = d

\* position p comes before position q in reading order: rows top to bottom,
\* a row left to right
ReadsBefore(p, q) == p.y < q.y \/ (p.y = q.y /\ p.x < q.x)

\* C32: in hierarchical layout the unassigned individuals (no manager, no
\* reports) are laid out grouped by department, each department's individuals
\* contiguous and in department order, and every one of them is placed
\* strictly above (smaller y than) every person that belongs to a root's
\* subtree.
C32_UnassignedByDepartmentOnTop ==
  LET vis == visiblePersonNodes(personNodes, collapsedNodes)
  IN (~hung /\ hasHierarchy(vis)) =>
       LET pos == newPositions(personNodes, collapsedNodes, departments)
       IN /\ \A a \in Unassigned(vis), b \in Unassigned(vis) :
               DepartmentIndex(vis[a].departmentId) < DepartmentIndex(vis[b].departmentId)
                 => ReadsBefore(pos[vis[a].id], pos[vis[b].id])
          /\ \A u \in Unassigned(vis), t \in InSubtrees(vis) :
               pos[vis[u].id].y < pos[vis[t].id].y

\* C33: once a store operation has set the error string (rejected setManager,
\* bulkSetManager with skips, illegal delete, invalid department, failed
\* import), the error remains set through any subsequent store operations
\* until clearError is called.
C33_ErrorStaysUntilCleared ==
  [][(error # NoError /\ error' = NoError) => clearError]_vars

\* the ids of the subtree of id in vis: id and everyone whose manager chain
\* passes through id
Subtree(id, vis) ==
  {vis[x].id : x \in {y \in DOMAIN vis : id \in UpwardChain(vis[y].id, vis)}}

\* the left edge and the right edge of the horizontal range the persons of S
\* occupy under the positions pos
LeftEdge(S, pos) ==
  CHOOSE l \in {pos[id].x : id \in S} : \A id \in S : l <= pos[id].x

RightEdge(S, pos) ==
  CHOOSE r \in {pos[id].x + NODE_WIDTH : id \in S} :
    \A id \in S : pos[id].x + NODE_WIDTH <= r

\* the roots that have reports, as indices of vis
TrueRoots(vis) ==
  {r \in DOMAIN vis :
     /\ vis[r].managerId = NULL \/ vis[r].managerId \notin Ids(vis)
     /\ Children(vis[r].id, vis) # << >>}

\* C34: in hierarchical layout of an acyclic visible set, no two visible
\* persons receive the same (x, y) position, the subtrees of different roots
\* occupy disjoint horizontal ranges placed left to right in root order, and
\* each manager is horizontally centred over the range its subtree occupies.
C34_SubtreesDisjointAndCentred ==
  LET vis == visiblePersonNodes(personNodes, collapsedNodes)
  IN (~hung /\ hasHierarchy(vis)) =>
       LET pos == newPositions(personNodes, collapsedNodes, departments)
       IN /\ \A a \in DOMAIN vis, b \in DOMAIN vis :
               a # b => pos[vis[a].id] # pos[vis[b].id]
          /\ \A r1 \in TrueRoots(vis), r2 \in TrueRoots(vis) :
               r1 < r2 => RightEdge(Subtree(vis[r1].id, vis), pos)
                            < LeftEdge(Subtree(vis[r2].id, vis), pos)
          /\ \A m \in DOMAIN vis :
               Children(vis[m].id, vis) # << >> =>
                 2 * pos[vis[m].id].x + NODE_WIDTH
                   = LeftEdge(Subtree(vis[m].id, vis), pos)
                     + RightEdge(Subtree(vis[m].id, vis), pos)

\* two roots with a report each, side by side
C34_Witness ==
  LET vis == visiblePersonNodes(personNodes, collapsedNodes)
  IN /\ ~hung
     /\ Cardinality(TrueRoots(vis)) = 2
     /\ \A r \in TrueRoots(vis) : Cardinality(Subtree(vis[r].id, vis)) = 2

\* C35: the auto-dismiss timer of a finished command never changes the phase
\* of a later command.  While the latest submitted command is processing, the
\* phase changes only by the answer to its own interpretation request; while
\* it is previewing, the phase changes only by confirm or cancel (or by the
\* user clearing the input or submitting again, which end the command on the
\* user's behalf); and the store's assignments change only by a confirm from
\* the previewing phase.
C35_TimerNeverEndsLaterCommand ==
  [][/\ (phase = "processing" /\ phase' # phase)
          => \E result \in InterpretResults : interpretCommandReturns(submitted, result)
     /\ (phase = "previewing" /\ phase' # phase)
          => handleConfirm \/ handleCancel \/ handleClear \/ handleSubmit
     /\ (csvFileName # NoFile
           /\ <<personNodes, managerAssignments>>' # <<personNodes, managerAssignments>>)
          => phase = "previewing" /\ handleConfirm]_<<vars, commandInput>>

====
